---------------------------- MODULE Spec2Model ----------------------------
(***************************************************************************)
(* A model of the BananaPod canvas editor: the App component's editing     *)
(* state machine (pointer gestures, undo/redo history, selection, crop,    *)
(* asynchronous image ingestion) and the geometry helpers it calls.        *)
(*                                                                         *)
(* One action models one event handler run to completion followed by the   *)
(* React render it schedules: all setState calls of a handler take effect  *)
(* together, and the effect that copies `elements` into elementsRef.current*)
(* has run before the next event is handled, so inside a handler           *)
(* elementsRef.current and the handler's own `elements` are the same       *)
(* value.  A callback that runs later (FileReader / Image onload) keeps    *)
(* the `elements`, `history` and `historyIndex` of the render in which it  *)
(* was created; those captured values are part of the pending callback.    *)
(***************************************************************************)
EXTENDS Integers, Sequences, FiniteSets, TLC

(***************************************************************************)
(* Numbers.  JavaScript numbers are modelled as exact rationals n/d in     *)
(* lowest terms with d > 0, extended with the three non-finite values a    *)
(* division can produce: d = 0 with n = 1 (Infinity), n = -1 (-Infinity)   *)
(* and n = 0 (NaN).  Rounding of doubles is not modelled.                  *)
(***************************************************************************)
RECURSIVE Gcd(_, _)
Gcd(a, b) == IF b = 0 THEN a ELSE Gcd(b, a % b)

IAbs(i) == IF i < 0 THEN -i ELSE i

Sign(i) == IF i < 0 THEN -1 ELSE IF i > 0 THEN 1 ELSE 0

Q(n, d) ==
    LET g == Gcd(IAbs(n), IAbs(d))
        s == IF d < 0 THEN -1 ELSE 1
    IN  IF d = 0 THEN [n |-> Sign(n), d |-> 0]
        ELSE [n |-> s * (n \div g), d |-> s * (d \div g)]

N(i) == [n |-> i, d |-> 1]

NaN == [n |-> 0, d |-> 0]

IsNaN(a) == a.d = 0 /\ a.n = 0

IsFinite(a) == a.d > 0

Neg(a) == [n |-> -a.n, d |-> a.d]

\* a + b
Add(a, b) ==
    IF IsNaN(a) \/ IsNaN(b) THEN NaN
    ELSE IF a.d = 0 /\ b.d = 0 THEN (IF a.n = b.n THEN a ELSE NaN)
    ELSE IF a.d = 0 THEN a
    ELSE IF b.d = 0 THEN b
    ELSE IF a.d = 1 /\ b.d = 1 THEN [n |-> a.n + b.n, d |-> 1]
    ELSE Q(a.n * b.d + b.n * a.d, a.d * b.d)

\* a - b
Sub(a, b) == Add(a, Neg(b))

\* a * b
Mul(a, b) ==
    IF IsNaN(a) \/ IsNaN(b) THEN NaN
    ELSE IF a.d = 0 \/ b.d = 0
         THEN [n |-> Sign(a.n) * Sign(b.n), d |-> 0]
    ELSE Q(a.n * b.n, a.d * b.d)

\* a / b  (x / 0 is +-Infinity, 0 / 0 and Infinity / Infinity are NaN)
Div(a, b) ==
    IF IsNaN(a) \/ IsNaN(b) THEN NaN
    ELSE IF a.d = 0 /\ b.d = 0 THEN NaN
    ELSE IF a.d = 0 THEN [n |-> a.n * (IF b.n < 0 THEN -1 ELSE 1), d |-> 0]
    ELSE IF b.d = 0 THEN N(0)
    ELSE Q(a.n * b.d, a.d * b.n)

\* a < b  (false when either side is NaN)
Lt(a, b) ==
    /\ ~IsNaN(a)
    /\ ~IsNaN(b)
    /\ IF a.d = 0 /\ b.d = 0 THEN a.n < b.n
       ELSE IF a.d = 0 THEN a.n < 0
       ELSE IF b.d = 0 THEN b.n > 0
       ELSE a.n * b.d < b.n * a.d

\* a <= b
Le(a, b) == ~IsNaN(a) /\ ~IsNaN(b) /\ (a = b \/ Lt(a, b))

\* a > b
Gt(a, b) == Lt(b, a)

\* a >= b
Ge(a, b) == Le(b, a)

\* Math.abs
Abs(a) == [n |-> IAbs(a.n), d |-> a.d]

\* Math.min / Math.max (NaN when either argument is NaN)
Min(a, b) == IF IsNaN(a) \/ IsNaN(b) THEN NaN ELSE IF Lt(b, a) THEN b ELSE a

Max(a, b) == IF IsNaN(a) \/ IsNaN(b) THEN NaN ELSE IF Lt(a, b) THEN b ELSE a

\* `v || 0` on a number: 0 and NaN are falsy
OrZero(a) == IF IsNaN(a) THEN N(0) ELSE a

(***************************************************************************)
(* Nullable values are sequences of length at most one.                    *)
(***************************************************************************)
Null == <<>>

Some(v) == <<v>>

Val(o) == o[1]

(***************************************************************************)
(* Elements.  Every element is a record with the same fields; a path       *)
(* carries its geometry in `points` (its width and height do not exist in  *)
(* the source and are never read for a path), an image or shape has no     *)
(* points.  The href of an image is "data" for a data: URL and "url" for   *)
(* any other URL; a path or shape has none.                                *)
(***************************************************************************)
Pt(x, y) == [x |-> x, y |-> y]

Rect(x, y, w, h) == [x |-> x, y |-> y, width |-> w, height |-> h]

ShapeTools == {"rectangle", "circle", "triangle"}

\* createElement(tool, x, y) for a shape tool, with the given fresh id
NewShape(id, tool, x, y) ==
    [id |-> id, type |-> "shape", shapeType |-> tool,
     x |-> x, y |-> y, width |-> N(0), height |-> N(0), points |-> <<>>,
     href |-> "none"]

\* createElement('draw', x, y), with the given fresh id
NewPath(id, x, y) ==
    [id |-> id, type |-> "path", shapeType |-> "none",
     x |-> N(0), y |-> N(0), width |-> N(0), height |-> N(0),
     points |-> <<Pt(x, y)>>, href |-> "none"]

\* the image element literal built by the image onload callbacks
NewImage(id, w, h) ==
    [id |-> id, type |-> "image", shapeType |-> "none",
     x |-> N(100), y |-> N(100), width |-> w, height |-> h, points |-> <<>>,
     href |-> "data"]

RECURSIVE MinOver(_, _, _)
MinOver(points, i, acc) ==
    IF i > Len(points) THEN acc
    ELSE MinOver(points, i + 1, [x |-> Min(acc.x, points[i].x),
                                 y |-> Min(acc.y, points[i].y)])

RECURSIVE MaxOver(_, _, _)
MaxOver(points, i, acc) ==
    IF i > Len(points) THEN acc
    ELSE MaxOver(points, i + 1, [x |-> Max(acc.x, points[i].x),
                                 y |-> Max(acc.y, points[i].y)])

\* whether element el is a hit at (x, y): the body of the loop of
\* getElementAtPosition
HitsElement(x, y, el) ==
    IF el.type = "path"
    THEN /\ Len(el.points) >= 2
         /\ LET lo == MinOver(el.points, 1, el.points[1])
                hi == MaxOver(el.points, 1, el.points[1])
            IN  Ge(x, lo.x) /\ Le(x, hi.x) /\ Ge(y, lo.y) /\ Le(y, hi.y)
    ELSE /\ Ge(x, el.x) /\ Le(x, Add(el.x, el.width))
         /\ Ge(y, el.y) /\ Le(y, Add(el.y, el.height))

RECURSIVE ScanDown(_, _, _, _)
ScanDown(x, y, els, i) ==
    IF i < 1 THEN Null
    ELSE IF HitsElement(x, y, els[i]) THEN Some(els[i])
    ELSE ScanDown(x, y, els, i - 1)

\* a hit test that returns the lowest element hit instead of the topmost
getElementAtPosition_Bottommost(x, y, els) ==
    LET hits == {i \in 1..Len(els) : HitsElement(x, y, els[i])}
    IN  IF hits = {} THEN Null
        ELSE Some(els[CHOOSE i \in hits : \A j \in hits : i <= j])

\* getElementAtPosition(x, y, elements): the element or Null
getElementAtPosition(x, y, els) == ScanDown(x, y, els, Len(els))


(***************************************************************************)
(* State.  The first group is the component's useState state, the second   *)
(* its refs, then the callbacks in flight and the id source.  `probe`      *)
(* holds the argument and result of a helper applied on its own.           *)
(***************************************************************************)
VARIABLES history, historyIndex, elements, selectedElement,
          selectedElementIds, action, activeTool, selectionBox,
          croppingState, panOffset, canvasSize, urlUpload,
          startPoint, currentDrawingElementId, resizeStartInfo,
          cropStartInfo, dragStartElementPositions,
          clipboard, isGenerating, error, errorTimers,
          pending, nextId, events, probe

docVars == <<history, historyIndex, elements>>

selVars == <<selectedElement, selectedElementIds>>

uiVars == <<action, activeTool, selectionBox, croppingState, panOffset, canvasSize,
           urlUpload>>

refVars == <<startPoint, currentDrawingElementId, resizeStartInfo,
             cropStartInfo, dragStartElementPositions>>

\* the one-slot clipboard, the busy flag of the generation, the error
\* banner and the number of setTimeout callbacks that will clear it
genVars == <<clipboard, isGenerating, error, errorTimers>>

vars == <<docVars, selVars, uiVars, refVars, genVars,
          pending, nextId, events, probe>>


(***************************************************************************)
(* Bounds of the model and the inputs the events draw from.                *)
(***************************************************************************)
\* most events (handler runs) of a run of the model
MaxEvents == 5

\* pointer positions (clientX, clientY), relative to the svg's origin
ClientPts == {Pt(N(100), N(100)), Pt(N(110), N(110)), Pt(N(110), N(120))}

\* natural sizes of the image files that are ingested
ImageDims == {[width |-> N(20), height |-> N(10)]}

Tools == {"select", "pan", "draw", "erase", "rectangle"}

Handles == {"tl", "tm", "tr", "ml", "mr", "bl", "bm", "br"}

\* String.prototype.includes for the one-letter tests on a handle name
Includes(handle, ch) ==
    CASE ch = "l" -> handle \in {"tl", "ml", "bl"}
      [] ch = "r" -> handle \in {"tr", "mr", "br"}
      [] ch = "t" -> handle \in {"tl", "tm", "tr"}
      [] ch = "b" -> handle \in {"bl", "bm", "br"}

(***************************************************************************)
(* History.                                                                *)
(***************************************************************************)
\* commitAction with setHistoryIndex(newHistory.length)
commitAction_PastEnd(h, hi, newElements) ==
    LET newHistory == Append(SubSeq(h, 1, hi + 1), newElements)
    IN  [history |-> newHistory, historyIndex |-> Len(newHistory)]

\* commitAction(newElements) run with the given history and historyIndex:
\* the new history and historyIndex
commitAction(h, hi, newElements) ==
    LET newHistory == Append(SubSeq(h, 1, hi + 1), newElements)
    IN  [history |-> newHistory, historyIndex |-> Len(newHistory) - 1]

\* handleUndo without its setElements
handleUndo_KeepsDocument(h, hi, els) ==
    IF hi > 0
    THEN [historyIndex |-> hi - 1, elements |-> els]
    ELSE [historyIndex |-> hi, elements |-> els]

\* the cursor and document after handleUndo
handleUndo(h, hi, els) ==
    IF hi > 0
    THEN [historyIndex |-> hi - 1, elements |-> h[(hi - 1) + 1]]
    ELSE [historyIndex |-> hi, elements |-> els]

\* handleRedo with setElements(history[historyIndex])
handleRedo_SameEntry(h, hi, els) ==
    IF hi < Len(h) - 1
    THEN [historyIndex |-> hi + 1, elements |-> h[hi + 1]]
    ELSE [historyIndex |-> hi, elements |-> els]

\* the cursor and document after handleRedo
handleRedo(h, hi, els) ==
    IF hi < Len(h) - 1
    THEN [historyIndex |-> hi + 1, elements |-> h[(hi + 1) + 1]]
    ELSE [historyIndex |-> hi, elements |-> els]

(***************************************************************************)
(* Helpers on sequences of elements.                                       *)
(***************************************************************************)
\* elements.filter(el => el.id !== id)
WithoutId(els, id) == LET Keep(el) == el.id # id IN SelectSeq(els, Keep)

\* ids.includes(id)
InSeq(s, v) == \E i \in 1..Len(s) : s[i] = v

\* elements.find(el => el.id === id), or Null
FindId(els, id) ==
    IF \E i \in 1..Len(els) : els[i].id = id
    THEN Some(els[CHOOSE i \in 1..Len(els) :
                    els[i].id = id /\ \A j \in 1..(i - 1) : els[j].id # id])
    ELSE Null

\* the ref Map dragStartElementPositions: a set of [id, v] entries, one per id
MapSet(m, id, v) == {e \in m : e.id # id} \cup {[id |-> id, v |-> v]}

MapHas(m, id) == \E e \in m : e.id = id

MapGet(m, id) == (CHOOSE e \in m : e.id = id).v

(***************************************************************************)
(* Pointer coordinates.                                                    *)
(***************************************************************************)
\* the zoom state, which no handler ever sets
zoom == N(1)

\* client point to canvas point in the render s (handleMouseDown /
\* handleMouseMove); the svg's bounding rect is taken to start at client
\* (0, 0)
ToCanvas(s, c) ==
    LET scaleFactor == Div(s.canvasSize, N(100))
    IN  Pt(Div(Sub(Div(c.x, scaleFactor), s.panOffset.x), zoom),
           Div(Sub(Div(c.y, scaleFactor), s.panOffset.y), zoom))

HandleSize == 8

\* where the resize handle `name` of element el is drawn
HandleAt(el, name) ==
    LET hx == IF Includes(name, "l") THEN el.x
              ELSE IF Includes(name, "r") THEN Add(el.x, el.width)
              ELSE Add(el.x, Div(el.width, N(2)))
        hy == IF Includes(name, "t") THEN el.y
              ELSE IF Includes(name, "b") THEN Add(el.y, el.height)
              ELSE Add(el.y, Div(el.height, N(2)))
    IN  Pt(hx, hy)

\* the handles in the order they are drawn: a later one lies over an
\* earlier one
HandleOrder == <<"tl", "tm", "tr", "ml", "mr", "bl", "bm", "br">>

\* whether the square of side HandleSize / zoom drawn around the position
\* of the handle `name` of el covers the canvas point p
HandleCovers(el, name, p) ==
    LET half == Div(Div(N(HandleSize), zoom), N(2))
        at == HandleAt(el, name)
    IN  /\ Le(Sub(at.x, half), p.x) /\ Le(p.x, Add(at.x, half))
        /\ Le(Sub(at.y, half), p.y) /\ Le(p.y, Add(at.y, half))

\* whether a pointer-down at canvas point p has the handle `name` as its
\* target: the handles are drawn for the one element whose id is the only
\* selected id, when it is an image or shape and no crop is active, and
\* the target is the last drawn of the handles that cover p
HandleUnder(p, name) ==
    /\ croppingState = Null
    /\ Len(selectedElementIds) = 1
    /\ \E i \in 1..Len(elements) :
          LET el == elements[i]
          IN  /\ el.id = selectedElementIds[1]
              /\ el.type \in {"image", "shape"}
              /\ \E k \in 1..Len(HandleOrder) :
                    /\ HandleOrder[k] = name
                    /\ HandleCovers(el, name, p)
                    /\ \A j \in (k + 1)..Len(HandleOrder) :
                          ~HandleCovers(el, HandleOrder[j], p)

(***************************************************************************)
(* Geometry of the gestures.                                               *)
(***************************************************************************)
\* the floor `const minSize = 10` of the resizing branch
minSize == 10

\* the resizing branch of handleMouseMove: the x, y, width and height it
\* assigns to the element, from resizeStartInfo and the pointer delta
ResizeGeometry(originalElement, handle, shiftKey, dx, dy) ==
    LET o == originalElement
        \* by handle
        x1 == IF Includes(handle, "l") THEN Add(o.x, dx) ELSE o.x
        w1 == IF Includes(handle, "r") THEN Add(o.width, dx)
              ELSE IF Includes(handle, "l") THEN Sub(o.width, dx)
              ELSE o.width
        y1 == IF Includes(handle, "t") THEN Add(o.y, dy) ELSE o.y
        h1 == IF Includes(handle, "b") THEN Add(o.height, dy)
              ELSE IF Includes(handle, "t") THEN Sub(o.height, dy)
              ELSE o.height
        \* the floor
        x2 == IF Lt(w1, N(minSize)) /\ Includes(handle, "l")
              THEN Sub(Add(o.x, o.width), N(minSize)) ELSE x1
        w2 == IF Lt(w1, N(minSize)) THEN N(minSize) ELSE w1
        y2 == IF Lt(h1, N(minSize)) /\ Includes(handle, "t")
              THEN Sub(Add(o.y, o.height), N(minSize)) ELSE y1
        h2 == IF Lt(h1, N(minSize)) THEN N(minSize) ELSE h1
        \* the aspect lock
        aspectRatio == Div(o.width, o.height)
        vertical == Includes(handle, "t") \/ Includes(handle, "b")
        w3 == IF shiftKey /\ vertical THEN Mul(h2, aspectRatio) ELSE w2
        h3 == IF shiftKey /\ ~vertical THEN Div(w2, aspectRatio) ELSE h2
        x3 == IF shiftKey /\ vertical /\ Includes(handle, "l")
              THEN Sub(Add(o.x, o.width), w3) ELSE x2
        y3 == IF shiftKey /\ ~vertical /\ Includes(handle, "t")
              THEN Sub(Add(o.y, o.height), h3) ELSE y2
    IN  Rect(x3, y3, w3, h3)

\* a rectangle that keeps the start point as its corner whichever way the
\* pointer went
SpanRect_FromStart(start, cur) ==
    Rect(start.x, start.y, Abs(Sub(cur.x, start.x)), Abs(Sub(cur.y, start.y)))

\* the rectangle spanned by the gesture's start point and the current point
\* (the rubber band, and the shape being drawn)
SpanRect(start, cur) ==
    LET width == Sub(cur.x, start.x)
        height == Sub(cur.y, start.y)
    IN  Rect(IF Lt(width, N(0)) THEN cur.x ELSE start.x,
             IF Lt(height, N(0)) THEN cur.y ELSE start.y,
             Abs(width), Abs(height))

\* a membership rule that takes an image or shape only when it lies fully
\* inside the box
isElementInSelectionBox_FullyInside(element, box) ==
    IF element.type = "path"
    THEN \E i \in 1..Len(element.points) :
            LET point == element.points[i]
            IN  /\ Ge(point.x, box.x) /\ Le(point.x, Add(box.x, box.width))
                /\ Ge(point.y, box.y) /\ Le(point.y, Add(box.y, box.height))
    ELSE /\ Ge(element.x, box.x)
         /\ Le(Add(element.x, element.width), Add(box.x, box.width))
         /\ Ge(element.y, box.y)
         /\ Le(Add(element.y, element.height), Add(box.y, box.height))

\* isElementInSelectionBox(element, box)
isElementInSelectionBox(element, box) ==
    IF element.type = "path"
    THEN \E i \in 1..Len(element.points) :
            LET point == element.points[i]
            IN  /\ Ge(point.x, box.x) /\ Le(point.x, Add(box.x, box.width))
                /\ Ge(point.y, box.y) /\ Le(point.y, Add(box.y, box.height))
    ELSE /\ Lt(element.x, Add(box.x, box.width))
         /\ Gt(Add(element.x, OrZero(element.width)), box.x)
         /\ Lt(element.y, Add(box.y, box.height))
         /\ Gt(Add(element.y, OrZero(element.height)), box.y)

\* the ids pushed by the forEach of the box-select branch of handleMouseUp
BoxSelectedIds(els, box) ==
    LET In(el) == isElementInSelectionBox(el, box)
        sel == SelectSeq(els, In)
    IN  [i \in 1..Len(sel) |-> sel[i].id]

\* a move that adds the delta to the element's current position
MovedElement_FromCurrent(el, v, dx, dy) ==
    IF el.type = "path"
    THEN [el EXCEPT !.points =
             [i \in 1..Len(el.points) |->
                 Pt(Add(el.points[i].x, dx), Add(el.points[i].y, dy))]]
    ELSE [el EXCEPT !.x = Add(el.x, dx), !.y = Add(el.y, dy)]

\* the element of the moving branch of handleMouseMove, moved by (dx, dy)
\* from its drag-start entry v
MovedElement(el, v, dx, dy) ==
    IF el.type = "path"
    THEN [el EXCEPT !.points =
             [i \in 1..Len(v) |-> Pt(Add(v[i].x, dx), Add(v[i].y, dy))]]
    ELSE [el EXCEPT !.x = Add(v[1].x, dx), !.y = Add(v[1].y, dy)]

(***************************************************************************)
(* The initial state: the useState / useRef initial values.                *)
(***************************************************************************)
NoProbe == [op |-> "none"]

\* showUrlUpload = false: no ImageUrlUpload component is mounted.  inst
\* counts the components mounted so far; url, isLoading and error are the
\* useState values of the mounted component.
NoUrlUpload(inst) ==
    [show |-> FALSE, inst |-> inst, url |-> <<>>, isLoading |-> FALSE,
     error |-> ""]

InitialState ==
    [history |-> <<<<>>>>,
     historyIndex |-> 0,
     elements |-> <<>>,
     selectedElement |-> Null,
     selectedElementIds |-> <<>>,
     action |-> "none",
     activeTool |-> "select",
     selectionBox |-> Null,
     croppingState |-> Null,
     panOffset |-> Pt(N(0), N(0)),
     canvasSize |-> N(100),
     urlUpload |-> NoUrlUpload(0),
     startPoint |-> Pt(N(0), N(0)),
     currentDrawingElementId |-> Null,
     resizeStartInfo |-> Null,
     cropStartInfo |-> Null,
     dragStartElementPositions |-> {},
     clipboard |-> Null,
     isGenerating |-> FALSE,
     error |-> Null,
     errorTimers |-> 0,
     pending |-> <<>>,
     nextId |-> 1]

\* the program is in state t
Is(t) ==
    /\ history = t.history
    /\ historyIndex = t.historyIndex
    /\ elements = t.elements
    /\ selectedElement = t.selectedElement
    /\ selectedElementIds = t.selectedElementIds
    /\ action = t.action
    /\ activeTool = t.activeTool
    /\ selectionBox = t.selectionBox
    /\ croppingState = t.croppingState
    /\ panOffset = t.panOffset
    /\ canvasSize = t.canvasSize
    /\ urlUpload = t.urlUpload
    /\ startPoint = t.startPoint
    /\ currentDrawingElementId = t.currentDrawingElementId
    /\ resizeStartInfo = t.resizeStartInfo
    /\ cropStartInfo = t.cropStartInfo
    /\ dragStartElementPositions = t.dragStartElementPositions
    /\ clipboard = t.clipboard
    /\ isGenerating = t.isGenerating
    /\ error = t.error
    /\ errorTimers = t.errorTimers
    /\ pending = t.pending
    /\ nextId = t.nextId

InitApp == Is(InitialState)

Init == InitApp /\ events = 0 /\ probe = NoProbe

(***************************************************************************)
(* Handlers.  A handler is an operator from the state it runs in (the      *)
(* record St of the render's state and the refs) and its event to the      *)
(* state after it and the render that follows.                             *)
(***************************************************************************)
St ==
    [history |-> history, historyIndex |-> historyIndex,
     elements |-> elements, selectedElement |-> selectedElement,
     selectedElementIds |-> selectedElementIds, action |-> action,
     activeTool |-> activeTool, selectionBox |-> selectionBox,
     croppingState |-> croppingState, panOffset |-> panOffset,
     canvasSize |-> canvasSize, urlUpload |-> urlUpload,
     startPoint |-> startPoint,
     currentDrawingElementId |-> currentDrawingElementId,
     resizeStartInfo |-> resizeStartInfo, cropStartInfo |-> cropStartInfo,
     dragStartElementPositions |-> dragStartElementPositions,
     clipboard |-> clipboard, isGenerating |-> isGenerating,
     error |-> error, errorTimers |-> errorTimers,
     pending |-> pending, nextId |-> nextId]

\* the next state is t
Becomes(t) ==
    /\ history' = t.history
    /\ historyIndex' = t.historyIndex
    /\ elements' = t.elements
    /\ selectedElement' = t.selectedElement
    /\ selectedElementIds' = t.selectedElementIds
    /\ action' = t.action
    /\ activeTool' = t.activeTool
    /\ selectionBox' = t.selectionBox
    /\ croppingState' = t.croppingState
    /\ panOffset' = t.panOffset
    /\ canvasSize' = t.canvasSize
    /\ urlUpload' = t.urlUpload
    /\ startPoint' = t.startPoint
    /\ currentDrawingElementId' = t.currentDrawingElementId
    /\ resizeStartInfo' = t.resizeStartInfo
    /\ cropStartInfo' = t.cropStartInfo
    /\ dragStartElementPositions' = t.dragStartElementPositions
    /\ clipboard' = t.clipboard
    /\ isGenerating' = t.isGenerating
    /\ error' = t.error
    /\ errorTimers' = t.errorTimers
    /\ pending' = t.pending
    /\ nextId' = t.nextId

\* setElements(newElements); commitAction(newElements) in state s
Committed(s, newElements) ==
    LET c == commitAction(s.history, s.historyIndex, newElements)
    IN  [s EXCEPT !.elements = newElements,
                  !.history = c.history,
                  !.historyIndex = c.historyIndex]

\* a pointer-up that commits nothing
CommittedCurrent_Skipped(s) == s

\* commitAction(elementsRef.current) in state s
CommittedCurrent(s) == Committed(s, s.elements)

(***************************************************************************)
(* handleMouseDown.  e.client is the pointer position, e.handle the        *)
(* data-handle attribute of the event target ("none" when it has none),    *)
(* e.shiftKey the shift state.                                             *)
(***************************************************************************)
handleMouseDown(s, e) ==
    LET p == ToCanvas(s, e.client)
        s0 == [s EXCEPT !.startPoint = p]
    IN
    IF s.croppingState # Null
    THEN [s0 EXCEPT !.cropStartInfo =
             Some([originalCropBox |-> Val(s.croppingState).cropBox,
                   startCanvasPoint |-> p])]
    ELSE IF s.activeTool = "select"
    THEN IF /\ e.handle # "none"
            /\ s.selectedElement # Null
            /\ Val(s.selectedElement).type \in {"image", "shape"}
         THEN [s0 EXCEPT !.action = "resizing",
                         !.resizeStartInfo =
                             Some([originalElement |-> Val(s.selectedElement),
                                   startCanvasPoint |-> p,
                                   handle |-> e.handle,
                                   shiftKey |-> e.shiftKey])]
         ELSE LET clickedElement == getElementAtPosition(p.x, p.y, s.elements)
              IN  IF clickedElement # Null
                  THEN LET el == Val(clickedElement)
                       IN  [s0 EXCEPT
                              !.selectedElement = clickedElement,
                              !.selectedElementIds = <<el.id>>,
                              !.action = "moving",
                              !.dragStartElementPositions =
                                  MapSet(s.dragStartElementPositions, el.id,
                                         IF el.type = "path" THEN el.points
                                         ELSE <<Pt(el.x, el.y)>>)]
                  ELSE [s0 EXCEPT !.selectedElement = Null,
                                  !.selectedElementIds = <<>>,
                                  !.action = "drawing",
                                  !.selectionBox =
                                      Some(Rect(p.x, p.y, N(0), N(0)))]
    ELSE IF s.activeTool = "pan"
    THEN [s0 EXCEPT !.action = "moving", !.startPoint = e.client]
    ELSE IF s.activeTool = "draw"
    THEN LET newElement == NewPath(s.nextId, p.x, p.y)
         IN  [s0 EXCEPT !.action = "drawing",
                        !.currentDrawingElementId = Some(newElement.id),
                        !.elements = Append(s.elements, newElement),
                        !.nextId = s.nextId + 1]
    ELSE IF s.activeTool = "erase"
    THEN LET elementToErase == getElementAtPosition(p.x, p.y, s.elements)
             s1 == [s0 EXCEPT !.action = "drawing"]
         IN  IF elementToErase # Null
             THEN LET id == Val(elementToErase).id
                      s2 == Committed(s1, WithoutId(s.elements, id))
                  IN  IF s.selectedElement # Null /\ Val(s.selectedElement).id = id
                      THEN [s2 EXCEPT !.selectedElement = Null,
                                      !.selectedElementIds = <<>>]
                      ELSE s2
             ELSE s1
    ELSE IF s.activeTool \in ShapeTools
    THEN LET newElement == NewShape(s.nextId, s.activeTool, p.x, p.y)
         IN  [s0 EXCEPT !.action = "drawing",
                        !.currentDrawingElementId = Some(newElement.id),
                        !.elements = Append(s.elements, newElement),
                        !.nextId = s.nextId + 1]
    ELSE s0

(***************************************************************************)
(* handleMouseMove.                                                        *)
(***************************************************************************)
\* an erase that commits the document it leaves
Erased_Committed(s, id) == Committed(s, WithoutId(s.elements, id))

\* the erase branch of handleMouseMove on a hit of the element id:
\* setElements of the document without it, and no commitAction
Erased(s, id) == [s EXCEPT !.elements = WithoutId(s.elements, id)]

\* whether the moving branch reads a drag-start entry that does not exist
\* (the read of `.map` / `.x` of undefined then throws a TypeError)
MoveThrows(s) ==
    /\ s.croppingState = Null \/ s.cropStartInfo = Null
    /\ s.action = "moving" /\ s.selectedElement # Null /\ s.activeTool = "select"
    /\ \E i \in 1..Len(s.elements) :
          /\ s.elements[i].id = Val(s.selectedElement).id
          /\ ~MapHas(s.dragStartElementPositions, s.elements[i].id)

handleMouseMove(s, e) ==
    LET p == ToCanvas(s, e.client) IN
    IF s.croppingState # Null /\ s.cropStartInfo # Null
    THEN LET info == Val(s.cropStartInfo)
             dx == Sub(p.x, info.startCanvasPoint.x)
             dy == Sub(p.y, info.startCanvasPoint.y)
         IN  [s EXCEPT !.croppingState =
                 Some([Val(s.croppingState) EXCEPT !.cropBox =
                          Rect(Add(info.originalCropBox.x, dx),
                               Add(info.originalCropBox.y, dy),
                               info.originalCropBox.width,
                               info.originalCropBox.height)])]
    ELSE IF s.action = "moving" /\ s.selectedElement # Null /\ s.activeTool = "select"
    THEN IF MoveThrows(s) THEN s
         ELSE LET dx == Sub(p.x, s.startPoint.x)
                  dy == Sub(p.y, s.startPoint.y)
                  id == Val(s.selectedElement).id
                  Move(el) == MovedElement(el, MapGet(s.dragStartElementPositions, id), dx, dy)
              IN  [s EXCEPT !.elements = [i \in 1..Len(s.elements) |->
                    IF s.elements[i].id = id THEN Move(s.elements[i])
                    ELSE s.elements[i]]]
    ELSE IF s.action = "resizing" /\ s.resizeStartInfo # Null
    THEN LET info == Val(s.resizeStartInfo)
             dx == Sub(p.x, info.startCanvasPoint.x)
             dy == Sub(p.y, info.startCanvasPoint.y)
             g == ResizeGeometry(info.originalElement, info.handle, info.shiftKey, dx, dy)
             Resize(el) == [el EXCEPT !.x = g.x, !.y = g.y,
                                      !.width = g.width, !.height = g.height]
         IN  [s EXCEPT !.elements = [i \in 1..Len(s.elements) |->
                    IF s.elements[i].id = info.originalElement.id THEN Resize(s.elements[i])
                    ELSE s.elements[i]]]
    ELSE IF s.action = "drawing" /\ s.activeTool = "select"
    THEN [s EXCEPT !.selectionBox = Some(SpanRect(s.startPoint, p))]
    ELSE IF s.action = "moving" /\ s.activeTool = "pan"
    THEN LET dx == Sub(e.client.x, s.startPoint.x)
             dy == Sub(e.client.y, s.startPoint.y)
         IN  [s EXCEPT !.panOffset = Pt(Add(s.panOffset.x, dx), Add(s.panOffset.y, dy)),
                       !.startPoint = e.client]
    ELSE IF s.action = "drawing" /\ s.activeTool = "draw" /\ s.currentDrawingElementId # Null
    THEN LET Extend(el) == IF el.type = "path"
                           THEN [el EXCEPT !.points = Append(el.points, p)]
                           ELSE el
         IN  [s EXCEPT !.elements = [i \in 1..Len(s.elements) |->
                    IF s.elements[i].id = Val(s.currentDrawingElementId) THEN Extend(s.elements[i])
                    ELSE s.elements[i]]]
    ELSE IF s.action = "drawing" /\ s.activeTool = "erase"
    THEN LET elementToErase == getElementAtPosition(p.x, p.y, s.elements)
         IN  IF elementToErase # Null
             THEN LET id == Val(elementToErase).id
                      s1 == Erased(s, id)
                  IN  IF s.selectedElement # Null /\ Val(s.selectedElement).id = id
                      THEN [s1 EXCEPT !.selectedElement = Null,
                                      !.selectedElementIds = <<>>]
                      ELSE s1
             ELSE s
    ELSE IF s.action = "drawing" /\ s.currentDrawingElementId # Null
    THEN LET r == SpanRect(s.startPoint, p)
             Span(el) == IF el.type = "shape"
                         THEN [el EXCEPT !.x = r.x, !.y = r.y,
                                         !.width = r.width, !.height = r.height]
                         ELSE el
         IN  [s EXCEPT !.elements = [i \in 1..Len(s.elements) |->
                    IF s.elements[i].id = Val(s.currentDrawingElementId) THEN Span(s.elements[i])
                    ELSE s.elements[i]]]
    ELSE s

(***************************************************************************)
(* handleMouseUp (also the svg's onMouseLeave).                            *)
(***************************************************************************)
handleMouseUp(s) ==
    IF s.croppingState # Null /\ s.cropStartInfo # Null
    THEN [s EXCEPT !.cropStartInfo = Null]
    ELSE
    LET s1 ==
          IF s.action = "drawing" /\ s.activeTool = "select" /\ s.selectionBox # Null
          THEN [s EXCEPT !.selectedElementIds =
                             BoxSelectedIds(s.elements, Val(s.selectionBox)),
                         !.selectionBox = Null]
          ELSE IF s.action = "drawing" /\ s.activeTool = "draw"
                  /\ s.currentDrawingElementId # Null
          THEN CommittedCurrent(s)
          ELSE IF s.action = "drawing" /\ s.activeTool = "erase"
          THEN CommittedCurrent(s)
          ELSE IF s.action = "drawing" /\ s.activeTool \in ShapeTools
                  /\ s.currentDrawingElementId # Null
          THEN CommittedCurrent(s)
          ELSE IF s.action = "moving" /\ s.selectedElement # Null
          THEN CommittedCurrent(s)
          ELSE IF s.action = "resizing" /\ s.resizeStartInfo # Null
          THEN LET updatedElement ==
                       FindId(s.elements, Val(s.resizeStartInfo).originalElement.id)
                   s2 == CommittedCurrent(s)
               IN  IF updatedElement # Null
                   THEN [s2 EXCEPT !.selectedElement = updatedElement]
                   ELSE s2
          ELSE s
    IN  [s1 EXCEPT !.action = "none",
                   !.currentDrawingElementId = Null,
                   !.dragStartElementPositions = {},
                   !.cropStartInfo = Null,
                   !.resizeStartInfo = Null]

(***************************************************************************)
(* Commands.                                                               *)
(***************************************************************************)
\* a delete that removes only the first of the selected elements
handleDelete_OnlyFirst(s) ==
    IF Len(s.selectedElementIds) > 0
    THEN LET s1 == Committed(s, WithoutId(s.elements, s.selectedElementIds[1]))
         IN  [s1 EXCEPT !.selectedElement = Null, !.selectedElementIds = <<>>]
    ELSE IF s.selectedElement # Null
    THEN LET s1 == Committed(s, WithoutId(s.elements, Val(s.selectedElement).id))
         IN  [s1 EXCEPT !.selectedElement = Null]
    ELSE s

\* handleDelete
handleDelete(s) ==
    IF Len(s.selectedElementIds) > 0
    THEN LET Keep(el) == ~InSeq(s.selectedElementIds, el.id)
             s1 == Committed(s, SelectSeq(s.elements, Keep))
         IN  [s1 EXCEPT !.selectedElement = Null, !.selectedElementIds = <<>>]
    ELSE IF s.selectedElement # Null
    THEN LET s1 == Committed(s, WithoutId(s.elements, Val(s.selectedElement).id))
         IN  [s1 EXCEPT !.selectedElement = Null]
    ELSE s

\* handleStartCrop
handleStartCrop(s) ==
    IF s.selectedElement # Null /\ Val(s.selectedElement).type = "image"
    THEN LET imageElement == Val(s.selectedElement)
         IN  [s EXCEPT !.croppingState =
                 Some([elementId |-> imageElement.id,
                       originalElement |-> imageElement,
                       cropBox |-> Rect(imageElement.x, imageElement.y,
                                        imageElement.width, imageElement.height)])]
    ELSE s

\* a confirm that sets the document without committing it
handleConfirmCrop_NoCommit(s) ==
    IF s.croppingState # Null
    THEN LET c == Val(s.croppingState)
             newElements ==
                 [i \in 1..Len(s.elements) |->
                     LET el == s.elements[i]
                     IN  IF el.id = c.elementId /\ el.type = "image"
                         THEN [el EXCEPT !.x = c.cropBox.x, !.y = c.cropBox.y,
                                         !.width = c.cropBox.width,
                                         !.height = c.cropBox.height]
                         ELSE el]
         IN  [s EXCEPT !.elements = newElements, !.croppingState = Null]
    ELSE [s EXCEPT !.croppingState = Null]

\* handleConfirmCrop
handleConfirmCrop(s) ==
    IF s.croppingState # Null
    THEN LET c == Val(s.croppingState)
             newElements ==
                 [i \in 1..Len(s.elements) |->
                     LET el == s.elements[i]
                     IN  IF el.id = c.elementId /\ el.type = "image"
                         THEN [el EXCEPT !.x = c.cropBox.x, !.y = c.cropBox.y,
                                         !.width = c.cropBox.width,
                                         !.height = c.cropBox.height]
                         ELSE el]
         IN  [Committed(s, newElements) EXCEPT !.croppingState = Null]
    ELSE [s EXCEPT !.croppingState = Null]

\* handleCancelCrop
handleCancelCrop(s) == [s EXCEPT !.croppingState = Null]

\* s with element v spliced in before position i (1-based): Array.splice(i - 1, 0, v)
InsertAt(q, i, v) == SubSeq(q, 1, i - 1) \o <<v>> \o SubSeq(q, i, Len(q))

\* findIndex(el => el.id === id), 0-based, -1 when absent
FindIndex(els, id) ==
    IF \E i \in 1..Len(els) : els[i].id = id
    THEN (CHOOSE i \in 1..Len(els) :
             els[i].id = id /\ \A j \in 1..(i - 1) : els[j].id # id) - 1
    ELSE -1

\* a reorder whose 'forward' puts the element back where it was
handleLayerAction_ForwardStays(s, elementId, direction) ==
    LET index == FindIndex(s.elements, elementId) IN
    IF index = -1 THEN s
    ELSE LET element == s.elements[index + 1]
             rest == SubSeq(s.elements, 1, index)
                     \o SubSeq(s.elements, index + 2, Len(s.elements))
             elementsCopy ==
                 CASE direction = "front" -> Append(rest, element)
                   [] direction = "back" -> <<element>> \o rest
                   [] direction = "forward" ->
                        LET newIndex == IF Len(rest) < index THEN Len(rest)
                                        ELSE index
                        IN  InsertAt(rest, newIndex + 1, element)
                   [] direction = "backward" ->
                        LET newIndex == IF 0 > index - 1 THEN 0 ELSE index - 1
                        IN  InsertAt(rest, newIndex + 1, element)
         IN  Committed(s, elementsCopy)

\* handleLayerAction(elementId, direction)
handleLayerAction(s, elementId, direction) ==
    LET index == FindIndex(s.elements, elementId) IN
    IF index = -1 THEN s
    ELSE LET element == s.elements[index + 1]
             rest == SubSeq(s.elements, 1, index)
                     \o SubSeq(s.elements, index + 2, Len(s.elements))
             elementsCopy ==
                 CASE direction = "front" -> Append(rest, element)
                   [] direction = "back" -> <<element>> \o rest
                   [] direction = "forward" ->
                        LET newIndex == IF Len(rest) < index + 1 THEN Len(rest)
                                        ELSE index + 1
                        IN  InsertAt(rest, newIndex + 1, element)
                   [] direction = "backward" ->
                        LET newIndex == IF 0 > index - 1 THEN 0 ELSE index - 1
                        IN  InsertAt(rest, newIndex + 1, element)
         IN  Committed(s, elementsCopy)

(***************************************************************************)
(* Image ingestion: handleAddImageElement(file) starts a FileReader whose  *)
(* onload starts an Image whose onload adds the element.  Both callbacks   *)
(* close over the `elements` and the commitAction (hence `history` and     *)
(* `historyIndex`) of the render that called handleAddImageElement.        *)
(***************************************************************************)
handleAddImageElement(s, dim) ==
    [s EXCEPT !.pending = Append(s.pending,
        [kind |-> "addImage", elements |-> s.elements,
         history |-> s.history, historyIndex |-> s.historyIndex,
         width |-> dim.width, height |-> dim.height])]

\* s.pending without its i-th callback
Settled(s, i) ==
    [s EXCEPT !.pending = SubSeq(s.pending, 1, i - 1)
                          \o SubSeq(s.pending, i + 1, Len(s.pending))]

\* img.onload of the i-th pending callback
AddImageOnload(s, i) ==
    LET cb == s.pending[i]
        newImageElement == NewImage(s.nextId, cb.width, cb.height)
        newElements == Append(cb.elements, newImageElement)
        c == commitAction(cb.history, cb.historyIndex, newElements)
    IN  [Settled(s, i) EXCEPT !.elements = newElements,
                              !.history = c.history,
                              !.historyIndex = c.historyIndex,
                              !.nextId = s.nextId + 1]

(***************************************************************************)
(* A step: one more event, within the budget of events.                    *)
(***************************************************************************)
Step(t) ==
    /\ events < MaxEvents
    /\ events' = events + 1
    /\ Becomes(t)

(***************************************************************************)
(* Actions.                                                                *)
(***************************************************************************)
\* the events a pointer-down at one of the points P can be in the current
\* state
DownEvents(P) ==
    {e \in [client : P, handle : Handles \cup {"none"}, shiftKey : BOOLEAN] :
        /\ e.handle # "none" => HandleUnder(ToCanvas(St, e.client), e.handle)
        /\ e.handle = "none" => ~e.shiftKey}

MouseDownAt(P) == \E e \in DownEvents(P) : Step(handleMouseDown(St, e))

MouseMoveAt(P) == \E c \in P : Step(handleMouseMove(St, [client |-> c]))

MouseDown == MouseDownAt(ClientPts)

MouseMove == MouseMoveAt(ClientPts)

MouseUp == Step(handleMouseUp(St))

\* the Toolbar's tool buttons and single-key shortcuts, absent while cropping
SetActiveTool ==
    /\ croppingState = Null
    /\ \E t \in Tools : Step([St EXCEPT !.activeTool = t])

Undo ==
    LET r == handleUndo(history, historyIndex, elements)
    IN  Step([St EXCEPT !.historyIndex = r.historyIndex, !.elements = r.elements])

Redo ==
    LET r == handleRedo(history, historyIndex, elements)
    IN  Step([St EXCEPT !.historyIndex = r.historyIndex, !.elements = r.elements])

\* Delete / Backspace, or the floating toolbar's Delete button
Delete ==
    /\ selectedElement # Null \/ Len(selectedElementIds) > 0
    /\ Step(handleDelete(St))

\* the single selected element the floating toolbar is drawn for, or Null
singleSelectedElement ==
    IF Len(selectedElementIds) = 1 THEN FindId(elements, selectedElementIds[1])
    ELSE Null

\* the floating toolbar's Crop button
StartCrop ==
    /\ singleSelectedElement # Null
    /\ croppingState = Null
    /\ Val(singleSelectedElement).type = "image"
    /\ Step(handleStartCrop(St))

ConfirmCrop == croppingState # Null /\ Step(handleConfirmCrop(St))

CancelCrop == croppingState # Null /\ Step(handleCancelCrop(St))

\* an entry of the context menu opened on an element
LayerAction ==
    \E id \in 1..(nextId - 1), d \in {"front", "back", "forward", "backward"} :
        Step(handleLayerAction(St, id, d))

\* upload, drop or paste of an image file
AddImage == \E dim \in ImageDims : Step(handleAddImageElement(St, dim))

AddImageLoaded ==
    \E i \in 1..Len(pending) :
        pending[i].kind = "addImage" /\ Step(AddImageOnload(St, i))

\* the file does not load: neither onload runs
AddImageFailed ==
    \E i \in 1..Len(pending) :
        pending[i].kind = "addImage" /\ Step(Settled(St, i))

Next ==
    \/ MouseDown /\ UNCHANGED probe
    \/ MouseMove /\ UNCHANGED probe
    \/ MouseUp /\ UNCHANGED probe
    \/ SetActiveTool /\ UNCHANGED probe
    \/ Undo /\ UNCHANGED probe
    \/ Redo /\ UNCHANGED probe
    \/ Delete /\ UNCHANGED probe
    \/ StartCrop /\ UNCHANGED probe
    \/ ConfirmCrop /\ UNCHANGED probe
    \/ CancelCrop /\ UNCHANGED probe
    \/ LayerAction /\ UNCHANGED probe
    \/ AddImage /\ UNCHANGED probe
    \/ AddImageLoaded /\ UNCHANGED probe
    \/ AddImageFailed /\ UNCHANGED probe

Spec == Init /\ [][Next]_vars

(***************************************************************************)
(* The history.                                                            *)
(***************************************************************************)
\* the entry of the history under the cursor (history[historyIndex])
AtCursor == history[historyIndex + 1]

\* C1: in every reachable state the history is not empty and the cursor is
\* in range, 0 <= historyIndex < history.length
C1_CursorInRange ==
    /\ Len(history) >= 1
    /\ 0 <= historyIndex
    /\ historyIndex < Len(history)

\* two commits and one undo have happened: the cursor is inside the history
C1_Witness == Len(history) = 3 /\ historyIndex = 1

\* C2: whenever no gesture is in progress and no callback is pending, the
\* live document is the history entry under the cursor
C2_LiveIsAtCursor ==
    (action = "none" /\ pending = <<>>) => elements = AtCursor

\* C3: a step that commits while entries lie after the cursor leaves the
\* history as history[0..historyIndex] followed by the new snapshot (the
\* document after the step), with the cursor on that last entry, where redo
\* changes nothing
C3_CommitTruncates ==
    [][(history' # history /\ historyIndex < Len(history) - 1) =>
          /\ history' = Append(SubSeq(history, 1, historyIndex + 1), elements')
          /\ historyIndex' = Len(history') - 1
          /\ handleRedo(history', historyIndex', elements') =
                 [historyIndex |-> historyIndex', elements |-> elements']]_vars

\* a commit has been made after an undo, on the entries before the cursor
C3_Witness ==
    /\ Len(history) = 2 /\ historyIndex = 1
    /\ Len(elements) = 1 /\ elements[1].id = 2
    /\ elements = AtCursor

\* every variable but the cursor, the document and the count of events
restOfState ==
    <<history, selVars, uiVars, refVars, pending, nextId>>

\* C4: undo with historyIndex > 0 moves the cursor back by one and makes
\* the document the entry under it, undo at 0 changes nothing; redo with
\* historyIndex < history.length - 1 moves the cursor forward by one and
\* makes the document the entry under it, redo at the last index changes
\* nothing; neither changes the history
C4_UndoRedo ==
    [][/\ Undo =>
            /\ IF historyIndex > 0
               THEN historyIndex' = historyIndex - 1 /\ elements' = history[historyIndex' + 1]
               ELSE UNCHANGED <<historyIndex, elements>>
            /\ UNCHANGED restOfState
       /\ Redo =>
            /\ IF historyIndex < Len(history) - 1
               THEN historyIndex' = historyIndex + 1 /\ elements' = history[historyIndex' + 1]
               ELSE UNCHANGED <<historyIndex, elements>>
            /\ UNCHANGED restOfState]_vars

\* an undo has acted and a redo can: the cursor is before the last entry
\* and the document is the entry under it
C4_Witness ==
    /\ historyIndex < Len(history) - 1
    /\ elements = AtCursor
    /\ elements # history[Len(history)]

(***************************************************************************)
(* The same program with the commits counted: probe.n is the number of     *)
(* steps so far that committed (a commit always changes the history or the *)
(* cursor, and of the handlers only undo and redo change them otherwise),  *)
(* probe.undone whether an undo or redo has been issued.                   *)
(***************************************************************************)
CountCommit ==
    probe' = [probe EXCEPT !.n =
                IF <<history', historyIndex'>> # <<history, historyIndex>>
                THEN @ + 1 ELSE @]

NoteUndone == probe' = [probe EXCEPT !.undone = TRUE]

InitCommits ==
    /\ InitApp
    /\ events = 0
    /\ probe = [op |-> "commits", n |-> 0, undone |-> FALSE]

NextCommits ==
    \/ MouseDown /\ CountCommit
    \/ MouseMove /\ CountCommit
    \/ MouseUp /\ CountCommit
    \/ SetActiveTool /\ CountCommit
    \/ Undo /\ NoteUndone
    \/ Redo /\ NoteUndone
    \/ Delete /\ CountCommit
    \/ StartCrop /\ CountCommit
    \/ ConfirmCrop /\ CountCommit
    \/ CancelCrop /\ CountCommit
    \/ LayerAction /\ CountCommit
    \/ AddImage /\ CountCommit
    \/ AddImageLoaded /\ CountCommit
    \/ AddImageFailed /\ CountCommit

SpecCommits == InitCommits /\ [][NextCommits]_vars

\* the cursor and document after n undos
RECURSIVE UndoTimes(_, _, _)
UndoTimes(n, hi, els) ==
    IF n = 0 THEN [historyIndex |-> hi, elements |-> els]
    ELSE LET u == handleUndo(history, hi, els)
         IN  UndoTimes(n - 1, u.historyIndex, u.elements)

\* the cursor and document after an undo immediately followed by a redo
UndoThenRedo ==
    LET u == handleUndo(history, historyIndex, elements)
    IN  handleRedo(history, u.historyIndex, u.elements)

\* history[0] is the empty list and, after N >= 1 commits and no undo or
\* redo, N undos lead to the empty document at cursor 0
UndoAllIsEmpty ==
    /\ history[1] = <<>>
    /\ (probe.n >= 1 /\ ~probe.undone) =>
          UndoTimes(probe.n, historyIndex, elements) =
              [historyIndex |-> 0, elements |-> <<>>]

\* C5 as stated: history[0] is always the empty list, N undos after N
\* commits lead to the initial empty document, and an undo immediately
\* followed by a redo restores the document and the cursor that held
\* before the undo
C5_AsStated ==
    /\ UndoAllIsEmpty
    /\ UndoThenRedo = [historyIndex |-> historyIndex, elements |-> elements]

\* C5 as amended: history[0] is always the empty list, N undos after N >= 1
\* commits lead to the initial empty document, and an undo made at
\* historyIndex > 0 immediately followed by a redo restores the cursor and
\* makes the document the history entry under it
C5_UndoRedoRoundTrip ==
    /\ UndoAllIsEmpty
    /\ historyIndex > 0 =>
          UndoThenRedo = [historyIndex |-> historyIndex, elements |-> AtCursor]

\* two commits have been made, neither undone, and the cursor is on the
\* second
C5_Witness ==
    /\ probe.n = 2 /\ ~probe.undone
    /\ historyIndex = 2 /\ Len(elements) = 2 /\ elements = AtCursor

(***************************************************************************)
(* Gestures on a document that holds a selected shape.                     *)
(***************************************************************************)
\* events: a tool shortcut, and pointer events on no handle without shift
ToolKey(t) == [type |-> "tool", tool |-> t]

Down(x, y) == [type |-> "down", client |-> Pt(N(x), N(y)), handle |-> "none", shiftKey |-> FALSE]

Move(x, y) == [type |-> "move", client |-> Pt(N(x), N(y))]

Up == [type |-> "up"]

\* the state after the handler of event ev has run in state s
Handled(s, ev) ==
    CASE ev.type = "tool" -> [s EXCEPT !.activeTool = ev.tool]
      [] ev.type = "down" -> handleMouseDown(s, ev)
      [] ev.type = "move" -> handleMouseMove(s, ev)
      [] ev.type = "up" -> handleMouseUp(s)

\* the state after the events evs, in order, from state s
RECURSIVE After(_, _)
After(s, evs) ==
    IF evs = <<>> THEN s
    ELSE CHOOSE r \in {After(t, Tail(evs)) : t \in {Handled(s, Head(evs))}} : TRUE

\* the state after a 10 x 20 rectangle is drawn at (100, 100) with the
\* rectangle tool and then selected by a click with the select tool
OneShapeSelected ==
    After(InitialState,
          <<ToolKey("rectangle"), Down(100, 100), Move(110, 120), Up,
            ToolKey("select"), Down(100, 100), Up>>)

\* the state after the tool is switched to t in state s
WithTool(s, t) == [s EXCEPT !.activeTool = t]

GestureTools == {"select", "draw", "rectangle"}

InitGesture ==
    /\ \E t \in GestureTools : Is(WithTool(OneShapeSelected, t))
    /\ events = 0
    /\ probe = NoProbe

NextGesture ==
    \/ action = "none" /\ MouseDown /\ UNCHANGED probe
    \/ MouseMove /\ UNCHANGED probe
    \/ MouseUp /\ UNCHANGED probe

SpecGesture == InitGesture /\ [][NextGesture]_vars

\* the gesture in progress, by its kind
InDraw ==
    action = "drawing" /\ activeTool = "draw" /\ currentDrawingElementId # Null

InShape ==
    action = "drawing" /\ activeTool \in ShapeTools /\ currentDrawingElementId # Null

InMove ==
    action = "moving" /\ activeTool = "select" /\ selectedElement # Null

InResize ==
    action = "resizing" /\ activeTool = "select" /\ resizeStartInfo # Null

InGesture == croppingState = Null /\ (InDraw \/ InShape \/ InMove \/ InResize)

\* C6: the pointer-down that starts a draw, shape, move or resize gesture
\* and every pointer-move of the gesture leave history and historyIndex
\* unchanged; its pointer-up leaves the document as it is and appends
\* exactly one snapshot, equal to the document, after the cursor's entry
C6_GestureCommitsOnce ==
    [][/\ (MouseDown /\ action = "none" /\ InGesture') =>
             UNCHANGED <<history, historyIndex>>
       /\ (MouseMove /\ InGesture) =>
             UNCHANGED <<history, historyIndex>>
       /\ (MouseUp /\ InGesture) =>
             /\ elements' = elements
             /\ history' = Append(SubSeq(history, 1, historyIndex + 1), elements)
             /\ Len(history') = Len(history) + 1
             /\ historyIndex' = historyIndex + 1]_vars

\* a resize gesture has ended: the shape's size has changed and the changed
\* document is the one entry added to the history
C6_Witness ==
    /\ action = "none"
    /\ Len(history) = Len(OneShapeSelected.history) + 1
    /\ historyIndex = Len(history) - 1
    /\ elements = AtCursor
    /\ Len(elements) = 1
    /\ <<elements[1].width, elements[1].height>> # <<N(10), N(20)>>

\* C9: a pointer-move of a resize gesture leaves the resized element with
\* width >= 10 and height >= 10
C9_ResizeFloor ==
    [][(MouseMove /\ action = "resizing" /\ resizeStartInfo # Null
           /\ croppingState = Null) =>
          \A i \in 1..Len(elements') :
              elements'[i].id = Val(resizeStartInfo).originalElement.id =>
                  /\ Ge(elements'[i].width, N(minSize))
                  /\ Ge(elements'[i].height, N(minSize))]_vars

\* a resize with shift held has moved the shape's bottom-right handle
C9_Witness ==
    /\ action = "resizing"
    /\ resizeStartInfo # Null
    /\ Val(resizeStartInfo).shiftKey
    /\ Val(resizeStartInfo).handle = "br"
    /\ Len(elements) = 1
    /\ <<elements[1].width, elements[1].height>> # <<N(10), N(20)>>

(***************************************************************************)
(* One erase gesture on a document of three overlapping paths.             *)
(***************************************************************************)
\* the state after three strokes from (100, 100) are drawn with the draw
\* tool, the first two to (110, 110) and the third to the point to, and
\* the erase tool is chosen
ThreePaths(to) ==
    After(InitialState,
          <<ToolKey("draw"),
            Down(100, 100), Move(110, 110), Up,
            Down(100, 100), Move(110, 110), Up,
            Down(100, 100), [type |-> "move", client |-> to], Up,
            ToolKey("erase")>>)

\* the end points of the third stroke
StrokeEnds == {Pt(N(110), N(110)), Pt(N(110), N(120))}

\* probe.entries is the number of history entries before the erase gesture
InitErase ==
    /\ \E to \in StrokeEnds : Is(ThreePaths(to))
    /\ events = 0
    /\ probe = [op |-> "erase", entries |-> Len(history)]

\* no gesture has added an entry since the initial state
Untouched == action = "none" /\ Len(history) = probe.entries

NextErase ==
    \/ Untouched /\ MouseDown /\ UNCHANGED probe
    \/ MouseMove /\ UNCHANGED probe
    \/ MouseUp /\ UNCHANGED probe

SpecErase == InitErase /\ [][NextErase]_vars

\* C7: once the erase gesture that removed all three elements has ended,
\* the history holds exactly one entry more than before the gesture, the
\* empty document, with the cursor on it
C7_EraseOneEntry ==
    (probe.op = "erase" /\ action = "none" /\ elements = <<>>) =>
        /\ Len(history) = probe.entries + 1
        /\ historyIndex = Len(history) - 1
        /\ AtCursor = <<>>

\* an erase gesture whose pointer-down hit nothing has removed all three
\* elements and has ended with one entry added
C7_Witness ==
    /\ probe.op = "erase"
    /\ action = "none"
    /\ elements = <<>>
    /\ Len(history) = probe.entries + 1

(***************************************************************************)
(* The hit test on its own: probe holds a point and an element list drawn  *)
(* from the sets below, and HitTest applies getElementAtPosition to them.  *)
(***************************************************************************)
MaxHitElems == 3

HitCoords == {N(0), N(5), N(10), N(12)}

HitKinds == {"shape", "image", "dot", "stroke", "tail"}

\* an element of each kind: a 10 x 10 shape at the origin, a 5 x 5 image at
\* (5, 5), the single-point path createElement makes at (5, 5), and two
\* strokes of two points
HitElement(kind, id) ==
    CASE kind = "shape" ->
            [NewShape(id, "rectangle", N(0), N(0))
                EXCEPT !.width = N(10), !.height = N(10)]
      [] kind = "image" ->
            [NewImage(id, N(5), N(5)) EXCEPT !.x = N(5), !.y = N(5)]
      [] kind = "dot" -> NewPath(id, N(5), N(5))
      [] kind = "stroke" ->
            [NewPath(id, N(10), N(0))
                EXCEPT !.points = Append(@, Pt(N(0), N(10)))]
      [] kind = "tail" ->
            [NewPath(id, N(10), N(10))
                EXCEPT !.points = Append(@, Pt(N(12), N(12)))]

HitLists ==
    UNION {{[i \in 1..n |-> HitElement(kinds[i], i)] :
                kinds \in [1..n -> HitKinds]} : n \in 0..MaxHitElems}

InitHit ==
    /\ InitApp
    /\ events = 0
    /\ \E x \in HitCoords, y \in HitCoords, els \in HitLists :
          probe = [op |-> "hit", x |-> x, y |-> y, els |-> els,
                   done |-> FALSE, result |-> Null]

HitTest ==
    /\ ~probe.done
    /\ probe' = [probe EXCEPT
                    !.done = TRUE,
                    !.result = getElementAtPosition(probe.x, probe.y, probe.els)]
    /\ UNCHANGED <<docVars, selVars, uiVars, refVars, genVars,
                   pending, nextId, events>>

NextHit == HitTest

SpecHit == InitHit /\ [][NextHit]_vars

\* the bounds of el contain (x, y), edges included: the rectangle of an
\* image or shape, the bounding box of the points of a path
BoundsContain(el, x, y) ==
    IF el.type = "path"
    THEN /\ \E i \in 1..Len(el.points) : Le(el.points[i].x, x)
         /\ \E i \in 1..Len(el.points) : Ge(el.points[i].x, x)
         /\ \E i \in 1..Len(el.points) : Le(el.points[i].y, y)
         /\ \E i \in 1..Len(el.points) : Ge(el.points[i].y, y)
    ELSE /\ Le(el.x, x) /\ Le(x, Add(el.x, el.width))
         /\ Le(el.y, y) /\ Le(y, Add(el.y, el.height))

\* the indices of the elements of the probe whose bounds contain its point
Containing ==
    {i \in 1..Len(probe.els) : BoundsContain(probe.els[i], probe.x, probe.y)}

\* those of them that are not paths of fewer than two points
Hittable ==
    {i \in Containing :
        probe.els[i].type = "path" => Len(probe.els[i].points) >= 2}

\* the result is the element of the highest index in idx, or null when idx
\* is empty
ResultIsTopOf(idx) ==
    IF idx = {} THEN probe.result = Null
    ELSE probe.result = Some(probe.els[CHOOSE i \in idx : \A j \in idx : j <= i])

\* C8 as stated: the hit test returns the element of the highest index whose
\* bounds contain the point, a path of a single point included, and null
\* exactly when no element's bounds contain the point
C8_AsStated == (probe.op = "hit" /\ probe.done) => ResultIsTopOf(Containing)

\* C8: the hit test returns the element of the highest index, among images,
\* shapes and paths of at least two points, whose bounds contain the point
\* with inclusive edges, and null exactly when there is none; a path of
\* fewer than two points is never returned
C8_HitTest == (probe.op = "hit" /\ probe.done) => ResultIsTopOf(Hittable)

\* two overlapping elements contain the point below a single-point path at
\* the point: the upper of the two is returned
C8_Witness ==
    /\ probe.op = "hit" /\ probe.done
    /\ probe.result # Null
    /\ Cardinality(Hittable) >= 2
    /\ \E i \in Containing \ Hittable : \A j \in Hittable : j < i

(***************************************************************************)
(* Rubber-band selection: the select tool over a document of three shapes  *)
(* and a stroke.                                                           *)
(***************************************************************************)
\* the state after the shapes {10, 10, 5, 5}, {95, 95, 20, 20} and
\* {200, 200, 10, 10} and a stroke from (150, 150) to (100, 100) are drawn
\* and the select tool is chosen
BoxDocument ==
    After(InitialState,
          <<ToolKey("rectangle"),
            Down(10, 10), Move(15, 15), Up,
            Down(95, 95), Move(115, 115), Up,
            Down(200, 200), Move(210, 210), Up,
            ToolKey("draw"),
            Down(150, 150), Move(100, 100), Up,
            ToolKey("select")>>)

BoxPts == {Pt(N(0), N(0)), Pt(N(12), N(12)), Pt(N(100), N(100)),
           Pt(N(300), N(300))}

InitBox == Is(BoxDocument) /\ events = 0 /\ probe = NoProbe

NextBox ==
    \/ action = "none" /\ MouseDownAt(BoxPts) /\ UNCHANGED probe
    \/ MouseMoveAt(BoxPts) /\ UNCHANGED probe
    \/ MouseUp /\ UNCHANGED probe

SpecBox == InitBox /\ [][NextBox]_vars

\* the box-membership rule: a path has a point in the box, bounds included;
\* the rectangle of an image or shape strictly overlaps the box
InBox(el, box) ==
    IF el.type = "path"
    THEN \E i \in 1..Len(el.points) :
            /\ Le(box.x, el.points[i].x)
            /\ Le(el.points[i].x, Add(box.x, box.width))
            /\ Le(box.y, el.points[i].y)
            /\ Le(el.points[i].y, Add(box.y, box.height))
    ELSE /\ Gt(Add(box.x, box.width), el.x)
         /\ Gt(Add(el.x, el.width), box.x)
         /\ Gt(Add(box.y, box.height), el.y)
         /\ Gt(Add(el.y, el.height), box.y)

\* ids lists, in the order of els and without repetition, exactly the ids
\* of the elements of els that are in the box
IdsInBoxInOrder(ids, els, box) ==
    /\ \A i \in 1..Len(els) : InBox(els[i], box) <=> InSeq(ids, els[i].id)
    /\ \A k \in 1..Len(ids) : \E i \in 1..Len(els) : els[i].id = ids[k]
    /\ \A k, l \in 1..Len(ids) :
          k < l => \E i, j \in 1..Len(els) :
                      i < j /\ els[i].id = ids[k] /\ els[j].id = ids[l]

\* the pointer-up that ends a rubber-band drag of the select tool
BoxSelectUp ==
    /\ MouseUp
    /\ croppingState = Null
    /\ action = "drawing" /\ activeTool = "select" /\ selectionBox # Null

\* whether some element of els has the rectangle r and the id id
HasShape(els, r, id) ==
    \E i \in 1..Len(els) :
        /\ els[i].type = "shape" /\ els[i].id = id
        /\ Rect(els[i].x, els[i].y, els[i].width, els[i].height) = r

\* C10: the pointer-up of a rubber-band drag sets selectedElementIds to the
\* ids, in document order, of exactly the elements that satisfy the
\* box-membership rule for the final box; for the box {0, 0, 100, 100} the
\* shapes {10, 10, 5, 5} and {95, 95, 20, 20} are selected and the shape
\* {200, 200, 10, 10} is not
C10_BoxSelect ==
    [][BoxSelectUp =>
        /\ IdsInBoxInOrder(selectedElementIds', elements, Val(selectionBox))
        /\ Val(selectionBox) = Rect(N(0), N(0), N(100), N(100)) =>
              \A id \in 1..nextId :
                /\ HasShape(elements, Rect(N(10), N(10), N(5), N(5)), id)
                      => InSeq(selectedElementIds', id)
                /\ HasShape(elements, Rect(N(95), N(95), N(20), N(20)), id)
                      => InSeq(selectedElementIds', id)
                /\ HasShape(elements, Rect(N(200), N(200), N(10), N(10)), id)
                      => ~InSeq(selectedElementIds', id)]_vars

\* the rubber band {0, 0, 100, 100} over the drawn document has ended: the
\* two shapes and the stroke that reach into it are selected, in document
\* order
C10_Witness ==
    /\ action = "none" /\ selectionBox = Null
    /\ elements = BoxDocument.elements
    /\ Len(selectedElementIds) = 3
    /\ HasShape(elements, Rect(N(10), N(10), N(5), N(5)), selectedElementIds[1])
    /\ HasShape(elements, Rect(N(95), N(95), N(20), N(20)), selectedElementIds[2])
    /\ HasShape(elements, Rect(N(200), N(200), N(10), N(10)), 3)
    /\ elements[4].id = selectedElementIds[3]

(***************************************************************************)
(* A shape-tool drag followed by one undo and one redo.  probe follows the *)
(* scenario: the elements before the drag, the pointer-down point, the     *)
(* last pointer point and, from the pointer-up on, the shape drawn.  The   *)
(* canvas is at its initial size and offset, so client and canvas          *)
(* coordinates agree.                                                      *)
(***************************************************************************)
ShapePts == {Pt(N(10), N(10)), Pt(N(60), N(40)), Pt(N(60), N(10))}

\* the documents a shape is drawn into: the empty one and one with a shape
ShapeStarts ==
    {WithTool(InitialState, "rectangle"), WithTool(OneShapeSelected, "rectangle")}

InitShape ==
    /\ \E s \in ShapeStarts : Is(s)
    /\ events = 0
    /\ probe = [op |-> "shape", phase |-> "idle", before |-> elements,
                from |-> Pt(N(0), N(0)), to |-> Pt(N(0), N(0)), shape |-> Null]

ShapeDown ==
    /\ probe.phase \in {"idle", "redone"}
    /\ \E c \in ShapePts :
          /\ MouseDownAt({c})
          /\ probe' = [probe EXCEPT !.phase = "down", !.before = elements,
                                    !.from = c, !.to = c, !.shape = Null]

ShapeMove ==
    /\ probe.phase = "down"
    /\ \E c \in ShapePts : MouseMoveAt({c}) /\ probe' = [probe EXCEPT !.to = c]

ShapeUp ==
    /\ probe.phase = "down"
    /\ MouseUp
    /\ probe' = [probe EXCEPT !.phase = "drawn",
                              !.shape = Some(elements'[Len(elements')])]

ShapeUndo ==
    /\ probe.phase = "drawn"
    /\ Undo
    /\ probe' = [probe EXCEPT !.phase = "undone"]

ShapeRedo ==
    /\ probe.phase = "undone"
    /\ Redo
    /\ probe' = [probe EXCEPT !.phase = "redone"]

NextShape ==
    \/ ShapeDown
    \/ ShapeMove
    \/ ShapeUp
    \/ ShapeUndo
    \/ ShapeRedo

SpecShape == InitShape /\ [][NextShape]_vars

\* el is a shape with the rectangle spanned by the points a and b
SpansPoints(el, a, b) ==
    /\ el.type = "shape"
    /\ el.x = Min(a.x, b.x) /\ el.y = Min(a.y, b.y)
    /\ el.width = Abs(Sub(b.x, a.x)) /\ el.height = Abs(Sub(b.y, a.y))

\* C11: a shape-tool drag from (x0, y0) to (x1, y1) leaves one new shape
\* with x = min(x0, x1), y = min(y0, y1), width = |x1 - x0| and
\* height = |y1 - y0| (from (10, 10) to (60, 40): 10, 10, 50, 30); one undo
\* afterwards removes the shape from the document and one redo restores it
\* with identical fields
C11_ShapeDrag ==
    probe.op = "shape" =>
        /\ probe.phase \in {"drawn", "redone"} =>
              /\ elements = Append(probe.before, Val(probe.shape))
              /\ SpansPoints(Val(probe.shape), probe.from, probe.to)
              /\ \A i \in 1..Len(probe.before) :
                    probe.before[i].id # Val(probe.shape).id
              /\ (probe.from = Pt(N(10), N(10)) /\ probe.to = Pt(N(60), N(40))) =>
                    Rect(Val(probe.shape).x, Val(probe.shape).y,
                         Val(probe.shape).width, Val(probe.shape).height)
                      = Rect(N(10), N(10), N(50), N(30))
        /\ probe.phase = "undone" => elements = probe.before

\* the shape dragged from (60, 40) back to (10, 10) next to another shape
\* has been undone and redone
C11_Witness ==
    /\ probe.op = "shape" /\ probe.phase = "redone"
    /\ probe.from = Pt(N(60), N(40)) /\ probe.to = Pt(N(10), N(10))
    /\ Len(elements) = 2
    /\ elements[2].width = N(50) /\ elements[2].x = N(10)

(***************************************************************************)
(* The clipboard.  handleCopy is the floating toolbar's Copy button, drawn *)
(* for the single selected element outside cropping.  handlePaste has no   *)
(* caller in the component; it is an operation of its own here.            *)
(***************************************************************************)
\* handleCopy
handleCopy(s) ==
    IF s.selectedElement # Null THEN [s EXCEPT !.clipboard = s.selectedElement]
    ELSE s

\* a paste that keeps the id of the clipboard element
handlePaste_SameId(s) ==
    IF s.clipboard # Null
    THEN LET c == Val(s.clipboard)
             newElement == [c EXCEPT !.x = Add(c.x, N(10)), !.y = Add(c.y, N(10))]
         IN  Committed(s, Append(s.elements, newElement))
    ELSE s

\* handlePaste
handlePaste(s) ==
    IF s.clipboard # Null
    THEN LET c == Val(s.clipboard)
             newElement == [c EXCEPT !.id = s.nextId,
                                     !.x = Add(c.x, N(10)),
                                     !.y = Add(c.y, N(10))]
         IN  [Committed(s, Append(s.elements, newElement))
                 EXCEPT !.nextId = s.nextId + 1]
    ELSE s

Copy ==
    /\ singleSelectedElement # Null
    /\ croppingState = Null
    /\ Step(handleCopy(St))

Paste == Step(handlePaste(St))

ClipPts == {Pt(N(90), N(90)), Pt(N(100), N(100)), Pt(N(110), N(110))}

InitClipboard ==
    /\ Is(OneShapeSelected)
    /\ events = 0
    /\ probe = NoProbe

NextClipboard ==
    \/ action = "none" /\ MouseDownAt(ClipPts) /\ UNCHANGED probe
    \/ MouseMoveAt(ClipPts) /\ UNCHANGED probe
    \/ MouseUp /\ UNCHANGED probe
    \/ Copy /\ UNCHANGED probe
    \/ Paste /\ UNCHANGED probe

SpecClipboard == InitClipboard /\ [][NextClipboard]_vars

\* the ids in use: those of the elements of the document and of the history
UsedIds ==
    {elements[i].id : i \in 1..Len(elements)}
    \cup UNION {{history[k][i].id : i \in 1..Len(history[k])} :
                    k \in 1..Len(history)}

\* el has the fields of c, but for its id, and the position of c moved by
\* (10, 10)
IsPasteOf(el, c) ==
    /\ [el EXCEPT !.id = c.id, !.x = c.x, !.y = c.y] = c
    /\ el.x = Add(c.x, N(10)) /\ el.y = Add(c.y, N(10))

\* C12: a paste appends one element with the fields of the clipboard
\* element, a fresh id and the position of the clipboard element plus
\* (10, 10), commits the new document and leaves the clipboard unchanged
C12_Paste ==
    [][(Paste /\ clipboard # Null) =>
          /\ Len(elements') = Len(elements) + 1
          /\ SubSeq(elements', 1, Len(elements)) = elements
          /\ IsPasteOf(elements'[Len(elements')], Val(clipboard))
          /\ elements'[Len(elements')].id \notin UsedIds
          /\ history' = Append(SubSeq(history, 1, historyIndex + 1), elements')
          /\ historyIndex' = Len(history') - 1
          /\ clipboard' = clipboard]_vars

\* two pastes from one copy: two elements at the clipboard's position plus
\* (10, 10), with distinct ids
C12_Witness ==
    /\ clipboard # Null
    /\ \E i, j \in 1..Len(elements) :
          /\ i < j /\ elements[i].id # elements[j].id
          /\ IsPasteOf(elements[i], Val(clipboard))
          /\ IsPasteOf(elements[j], Val(clipboard))

\* C13: copy, invoked between gestures with exactly one element selected (by
\* a click or by a rubber band), stores in the clipboard that element as it
\* is in the live document, with its geometry after any move or resize
C13_CopyStoresLive ==
    [][(Copy /\ action = "none" /\ singleSelectedElement # Null) =>
          clipboard' = singleSelectedElement]_vars

\* a copy has stored the selected element as it is in the document
C13_Witness ==
    /\ clipboard # Null
    /\ clipboard = singleSelectedElement

(***************************************************************************)
(* Delete over the document of three shapes and a stroke, selected by      *)
(* clicks and rubber bands.                                                *)
(***************************************************************************)
InitDelete == Is(BoxDocument) /\ events = 0 /\ probe = NoProbe

NextDelete ==
    \/ action = "none" /\ MouseDownAt(BoxPts) /\ UNCHANGED probe
    \/ MouseMoveAt(BoxPts) /\ UNCHANGED probe
    \/ MouseUp /\ UNCHANGED probe
    \/ Delete /\ UNCHANGED probe

SpecDelete == InitDelete /\ [][NextDelete]_vars

\* the ids Delete is to remove: those of selectedElementIds or, when that
\* list is empty, the id of selectedElement
IdsToDelete ==
    IF selectedElementIds # <<>>
    THEN {selectedElementIds[k] : k \in 1..Len(selectedElementIds)}
    ELSE {Val(selectedElement).id}

\* after is before without the elements whose ids are in ids, the others in
\* their order
IsWithout(after, before, ids) ==
    LET kept == {i \in 1..Len(before) : before[i].id \notin ids}
    IN  /\ Len(after) = Cardinality(kept)
        /\ \A k \in 1..Len(after) :
              \E i \in kept : /\ after[k] = before[i]
                              /\ Cardinality({j \in kept : j < i}) = k - 1

\* C14: Delete removes exactly the elements whose ids are selected, keeps the
\* others in their order, commits one history entry and leaves the
\* selection empty
C14_Delete ==
    [][Delete =>
          /\ IsWithout(elements', elements, IdsToDelete)
          /\ history' = Append(SubSeq(history, 1, historyIndex + 1), elements')
          /\ historyIndex' = Len(history') - 1
          /\ selectedElementIds' = <<>>
          /\ selectedElement' = Null]_vars

\* the two shapes and the stroke taken by the rubber band {0, 0, 100, 100}
\* have been deleted: the third shape is the document
C14_Witness ==
    /\ Len(elements) = 1
    /\ HasShape(elements, Rect(N(200), N(200), N(10), N(10)), 3)
    /\ Len(history) = Len(BoxDocument.history) + 1
    /\ AtCursor = elements
    /\ selectedElementIds = <<>> /\ selectedElement = Null

(***************************************************************************)
(* Layer reorder over a document of two shapes and a stroke.               *)
(***************************************************************************)
LayerDocument ==
    After(InitialState,
          <<ToolKey("rectangle"),
            Down(10, 10), Move(15, 15), Up,
            Down(95, 95), Move(115, 115), Up,
            ToolKey("draw"),
            Down(150, 150), Move(100, 100), Up,
            ToolKey("select")>>)

LayerDirections == {"front", "back", "forward", "backward"}

\* handleLayerAction(id, d) runs
LayerStep(id, d) == Step(handleLayerAction(St, id, d))

InitLayer == Is(LayerDocument) /\ events = 0 /\ probe = NoProbe

NextLayer ==
    \/ LayerAction /\ UNCHANGED probe
    \/ Undo /\ UNCHANGED probe

SpecLayer == InitLayer /\ [][NextLayer]_vars

\* the position in els of the element with the id id
PosOf(els, id) == CHOOSE k \in 1..Len(els) : els[k].id = id

\* els without its i-th element
Drop(els, i) == [k \in 1..(Len(els) - 1) |-> IF k < i THEN els[k] ELSE els[k + 1]]

\* the position the direction d takes the i-th of n elements to
LayerTarget(i, n, d) ==
    CASE d = "front" -> n
      [] d = "back" -> 1
      [] d = "forward" -> IF i = n THEN n ELSE i + 1
      [] d = "backward" -> IF i = 1 THEN 1 ELSE i - 1

\* C15: a layer reorder of an element of the document gives a permutation
\* in which the other elements keep their order and the element is last
\* ('front'), first ('back'), one place up ('forward', unless last) or one
\* place down ('backward', unless first); each call commits one entry
C15_LayerReorder ==
    [][\A id \in 1..nextId, d \in LayerDirections :
          (LayerStep(id, d) /\ InSeq([k \in 1..Len(elements) |-> elements[k].id], id)) =>
              LET i == PosOf(elements, id)
                  j == LayerTarget(i, Len(elements), d)
              IN  /\ Len(elements') = Len(elements)
                  /\ elements'[j] = elements[i]
                  /\ Drop(elements', j) = Drop(elements, i)
                  /\ history' = Append(SubSeq(history, 1, historyIndex + 1), elements')
                  /\ historyIndex' = Len(history') - 1]_vars

\* the first shape has been brought forward and the stroke sent to the
\* back, with one entry committed by each
C15_Witness ==
    /\ Len(elements) = 3
    /\ elements[1].id = 3 /\ elements[2].id = 2 /\ elements[3].id = 1
    /\ Len(history) = Len(LayerDocument.history) + 2

(***************************************************************************)
(* Cropping: a document of a shape and an image, the image selected by a   *)
(* click.  probe holds the document and the history as they were when the  *)
(* crop was started.                                                       *)
(***************************************************************************)
CropDocument ==
    After(AddImageOnload(
              handleAddImageElement(
                  After(InitialState,
                        <<ToolKey("rectangle"), Down(10, 10), Move(15, 15), Up,
                          ToolKey("select")>>),
                  [width |-> N(20), height |-> N(10)]),
              1),
          <<Down(100, 100), Up>>)

InitCrop ==
    /\ Is(CropDocument)
    /\ events = 0
    /\ probe = [op |-> "crop", history |-> history,
                historyIndex |-> historyIndex, elements |-> elements]

\* the Crop button, pressed between two gestures
CropStarted ==
    /\ action = "none"
    /\ StartCrop
    /\ probe' = [probe EXCEPT !.history = history,
                              !.historyIndex = historyIndex,
                              !.elements = elements]

NextCrop ==
    \/ CropStarted
    \/ action = "none" /\ MouseDown /\ UNCHANGED probe
    \/ MouseMove /\ UNCHANGED probe
    \/ MouseUp /\ UNCHANGED probe
    \/ ConfirmCrop /\ UNCHANGED probe
    \/ CancelCrop /\ UNCHANGED probe

SpecCrop == InitCrop /\ [][NextCrop]_vars

\* after is before with the rectangle of the image with the id id set to
\* box, and nothing else changed
IsCroppedTo(after, before, id, box) ==
    /\ Len(after) = Len(before)
    /\ \A i \in 1..Len(before) :
          IF before[i].id = id /\ before[i].type = "image"
          THEN /\ Rect(after[i].x, after[i].y, after[i].width, after[i].height) = box
               /\ [after[i] EXCEPT !.x = before[i].x, !.y = before[i].y,
                                   !.width = before[i].width,
                                   !.height = before[i].height] = before[i]
          ELSE after[i] = before[i]

\* C16: crop confirm sets the rectangle of the target image to the crop box,
\* changes nothing else in the document as it was when the crop started,
\* commits once and leaves cropping mode; crop cancel leaves cropping mode
\* with the document, the history and the cursor as they were when the crop
\* started, whatever drags of the crop box came in between
C16_Crop ==
    [][(probe.op = "crop") =>
        /\ ConfirmCrop =>
              /\ IsCroppedTo(elements', probe.elements,
                             Val(croppingState).elementId,
                             Val(croppingState).cropBox)
              /\ history' = Append(SubSeq(probe.history, 1, probe.historyIndex + 1),
                                   elements')
              /\ historyIndex' = Len(history') - 1
              /\ croppingState' = Null
        /\ CancelCrop =>
              /\ elements' = probe.elements
              /\ history' = probe.history
              /\ historyIndex' = probe.historyIndex
              /\ croppingState' = Null]_vars

\* a crop box dragged away from the image has been confirmed: the image is
\* at the box, the shape is where it was
C16_Witness ==
    /\ probe.op = "crop"
    /\ croppingState = Null
    /\ Len(history) = Len(probe.history) + 1
    /\ Len(elements) = 2
    /\ elements[1] = probe.elements[1]
    /\ elements[2].type = "image"
    /\ elements[2].x # probe.elements[2].x
    /\ AtCursor = elements


(***************************************************************************)
(* Generation: handleGenerateArt(prompt) is an async function.  The part   *)
(* up to its first await runs in the handler; the rest resumes when the    *)
(* conversion of the inputs settles and when editImage settles.  A call    *)
(* that has not finished is a pending record that holds the `elements`     *)
(* and the commitAction (hence `history` and `historyIndex`) of the render *)
(* that made the call, the inputs, and how far the call has come:          *)
(* "converting" (awaiting Promise.all) or "requested" (awaiting editImage).*)
(***************************************************************************)
\* handleUrlUpload(url) for a non-empty url: an Image is started whose
\* onload closes over the `elements` and commitAction of this render
handleUrlUpload(s, dim) ==
    [s EXCEPT !.pending = Append(s.pending,
        [kind |-> "urlImage", elements |-> s.elements,
         history |-> s.history, historyIndex |-> s.historyIndex,
         width |-> dim.width, height |-> dim.height])]

\* img.onload of handleUrlUpload: the element keeps the url as its href
UrlImageOnload(s, i) ==
    LET cb == s.pending[i]
        newImageElement ==
            [NewImage(s.nextId, cb.width, cb.height) EXCEPT !.href = "url"]
        newElements == Append(cb.elements, newImageElement)
        c == commitAction(cb.history, cb.historyIndex, newElements)
    IN  [Settled(s, i) EXCEPT !.elements = newElements,
                              !.history = c.history,
                              !.historyIndex = c.historyIndex,
                              !.nextId = s.nextId + 1]

\* String.prototype.trim, on a prompt given as its sequence of characters
RECURSIVE trimStart(_)
trimStart(p) ==
    IF p # <<>> /\ Head(p) = " " THEN trimStart(Tail(p)) ELSE p

RECURSIVE trimEnd(_)
trimEnd(p) ==
    IF p # <<>> /\ p[Len(p)] = " "
    THEN trimEnd(SubSeq(p, 1, Len(p) - 1))
    ELSE p

trim(p) == trimEnd(trimStart(p))

\* the 512 x 512 canvas filled with white, as an input of the service
WhiteInput == [href |-> "white", of |-> Null]

\* an input made of the image element el: its href as it is
InputOf(el) == [href |-> el.href, of |-> Some(el.id)]

\* the image elements among the selected ones, in document order
selectedImageElements(s) ==
    LET Sel(el) == InSeq(s.selectedElementIds, el.id) /\ el.type = "image"
    IN  SelectSeq(s.elements, Sel)

\* a call that sets no busy flag
handleGenerateArt_NotBusy(s, prompt) ==
    IF trim(prompt) = <<>> THEN s
    ELSE LET sel == selectedImageElements(s)
             inputImages ==
                 IF Len(sel) = 0 THEN <<WhiteInput>>
                 ELSE [i \in 1..Len(sel) |-> InputOf(sel[i])]
             loading == \E i \in 1..Len(inputImages) :
                            inputImages[i].href = "url"
         IN  [s EXCEPT !.pending = Append(@,
                     [kind |-> "generate",
                      phase |-> IF loading THEN "converting" ELSE "requested",
                      inputImages |-> inputImages,
                      elements |-> s.elements, history |-> s.history,
                      historyIndex |-> s.historyIndex])]

\* handleGenerateArt(prompt) up to its first await that does not settle in
\* the same task: inputs that are data URLs are ready at once, an input
\* with an external URL waits for its Image to load
handleGenerateArt(s, prompt) ==
    IF trim(prompt) = <<>> THEN s
    ELSE LET sel == selectedImageElements(s)
             inputImages ==
                 IF Len(sel) = 0 THEN <<WhiteInput>>
                 ELSE [i \in 1..Len(sel) |-> InputOf(sel[i])]
             loading == \E i \in 1..Len(inputImages) :
                            inputImages[i].href = "url"
         IN  [s EXCEPT !.isGenerating = TRUE,
                       !.pending = Append(@,
                     [kind |-> "generate",
                      phase |-> IF loading THEN "converting" ELSE "requested",
                      inputImages |-> inputImages,
                      elements |-> s.elements, history |-> s.history,
                      historyIndex |-> s.historyIndex])]

\* every Image of the conversion loads: Promise.all resolves with the data
\* URLs drawn from the loaded images and editImage is called
ConversionResolved(s, i) ==
    LET cb == s.pending[i]
        convertedImages ==
            [k \in 1..Len(cb.inputImages) |->
                [cb.inputImages[k] EXCEPT !.href = "data"]]
    IN  [s EXCEPT !.pending[i].phase = "requested",
                  !.pending[i].inputImages = convertedImages]

\* a catch with no finally after it
GenerateCaught_NoFinally(s, i, errorMessage) ==
    [Settled(s, i) EXCEPT !.error = Some(errorMessage),
                          !.errorTimers = @ + 1]

\* the catch and the finally of handleGenerateArt
GenerateCaught(s, i, errorMessage) ==
    [Settled(s, i) EXCEPT !.error = Some(errorMessage),
                          !.errorTimers = @ + 1,
                          !.isGenerating = FALSE]

\* img.onerror of one Image of the conversion: the promise returned from
\* inside the try is rejected after the try block was left, so its catch
\* does not run; Promise.all rejects and the outer catch runs
ConversionRejected(s, i) == 
    GenerateCaught(s, i, "Failed to generate image: Failed to load image")

\* editImage rejects
RequestRejected(s, i) == 
    GenerateCaught(s, i, "Failed to generate image: request failed")

\* editImage resolves with an image: the success branch and the finally
ImageResponse(s, i) ==
    LET cb == s.pending[i]
        newImageElement == NewImage(s.nextId, N(512), N(512))
        newElements == Append(cb.elements, newImageElement)
        c == commitAction(cb.history, cb.historyIndex, newElements)
    IN  [Settled(s, i) EXCEPT !.elements = newElements,
                              !.history = c.history,
                              !.historyIndex = c.historyIndex,
                              !.nextId = s.nextId + 1,
                              !.isGenerating = FALSE]

\* a response without image that starts no timer
NoImageResponse_NoTimer(s, i, textResponse) ==
    LET errorMessage == IF textResponse # "" THEN textResponse
                        ELSE "Failed to generate image"
    IN  [Settled(s, i) EXCEPT !.error = Some(errorMessage),
                              !.isGenerating = FALSE]

\* editImage resolves without an image: the else branch and the finally;
\* textResponse is "" when the response has no text
NoImageResponse(s, i, textResponse) ==
    LET errorMessage == IF textResponse # "" THEN textResponse
                        ELSE "Failed to generate image"
    IN  [Settled(s, i) EXCEPT !.error = Some(errorMessage),
                              !.errorTimers = @ + 1,
                              !.isGenerating = FALSE]

\* the prompts typed into the prompt bar, as sequences of characters
Prompts == {<<>>, <<" ">>, <<" ", " ">>, <<"a">>, <<" ", "a", " ">>}

\* the texts of a response without image
TextResponses == {"", "no image for this prompt"}

\* <PromptBar onGenerate={handleGenerate} isLoading={isGenerating} ... /> is
\* rendered while nothing is being cropped
PromptBarRendered == croppingState = Null

isLoading == isGenerating

\* the prompt bar's button calls onGenerate(prompt); it is disabled while
\* isLoading is true
PromptBarSubmits == PromptBarRendered /\ ~isLoading

\* handleGenerate(prompt), called by the prompt bar
Generate ==
    \E p \in Prompts : PromptBarSubmits /\ Step(handleGenerateArt(St, p))

Converting(i) ==
    pending[i].kind = "generate" /\ pending[i].phase = "converting"

Requested(i) ==
    pending[i].kind = "generate" /\ pending[i].phase = "requested"

ConversionLoaded ==
    \E i \in 1..Len(pending) :
        Converting(i) /\ Step(ConversionResolved(St, i))

ConversionFailed ==
    \E i \in 1..Len(pending) :
        Converting(i) /\ Step(ConversionRejected(St, i))

RespondImage ==
    \E i \in 1..Len(pending) : Requested(i) /\ Step(ImageResponse(St, i))

RespondNoImage ==
    \E i \in 1..Len(pending), text \in TextResponses :
        Requested(i) /\ Step(NoImageResponse(St, i, text))

RequestFailed ==
    \E i \in 1..Len(pending) : Requested(i) /\ Step(RequestRejected(St, i))

\* a timer set with setTimeout(() => setError(null), 5000) fires
ErrorTimeout ==
    /\ errorTimers > 0
    /\ Becomes([St EXCEPT !.error = Null, !.errorTimers = @ - 1])
    /\ UNCHANGED <<events, probe>>

\* the close button of the error banner
DismissError == error # Null /\ Step([St EXCEPT !.error = Null])

\* A data-URL image (id 1) below an image with an external URL (id 2),
\* with nothing selected, with the upper image selected by a click and with
\* both selected by a rubber band.
GenDocument ==
    UrlImageOnload(
        handleUrlUpload(
            AddImageOnload(
                handleAddImageElement(InitialState,
                                      [width |-> N(20), height |-> N(10)]), 1),
            [width |-> N(20), height |-> N(10)]), 1)

GenSelections ==
    {<<>>,
     <<Down(100, 100), Up>>,
     <<Down(90, 90), Move(130, 130), Up>>}

InitGenerate ==
    /\ \E evs \in GenSelections : Is(After(GenDocument, evs))
    /\ events = 0
    /\ probe = NoProbe

NextGenerate ==
    \/ Generate /\ UNCHANGED probe
    \/ ConversionLoaded /\ UNCHANGED probe
    \/ ConversionFailed /\ UNCHANGED probe
    \/ RespondImage /\ UNCHANGED probe
    \/ RespondNoImage /\ UNCHANGED probe
    \/ RequestFailed /\ UNCHANGED probe
    \/ ErrorTimeout
    \/ DismissError /\ UNCHANGED probe
    \/ Delete /\ UNCHANGED probe
    \/ Undo /\ UNCHANGED probe

SpecGenerate == InitGenerate /\ [][NextGenerate]_vars

\* the browser runs a timer's callback once its delay has passed
FairSpecGenerate == SpecGenerate /\ WF_vars(ErrorTimeout)


(***************************************************************************)
(* C17..C20: generation.                                                   *)
(***************************************************************************)
\* the calls of handleGenerateArt that have not finished
InFlight == {i \in 1..Len(pending) : pending[i].kind = "generate"}

\* the i-th pending call is a conversion of several inputs that ends with
\* the failure of an Image to load
OneInputFails(i) ==
    /\ Converting(i)
    /\ Len(pending[i].inputImages) > 1
    /\ Step(ConversionRejected(St, i))

\* inputs `after` are inputs `before` with every input whose href is an
\* external URL either converted or replaced by the white canvas, and at
\* least one replaced
Replaced(after, before) ==
    /\ Len(after) = Len(before)
    /\ \A k \in 1..Len(before) :
          IF before[k].href = "url"
          THEN after[k] = WhiteInput \/ after[k] = [before[k] EXCEPT !.href = "data"]
          ELSE after[k] = before[k]
    /\ \E k \in 1..Len(before) : before[k].href = "url" /\ after[k] = WhiteInput

\* C17: when a generation call has several selected images as input and the
\* conversion of one of them (an image with an external URL that fails to
\* load) fails, that input is replaced by a blank white 512 x 512 image and
\* the request is submitted with the full list of inputs; the call is not
\* aborted and no generation error is set.
C17_FailedInputReplaced ==
    [][\A i \in 1..Len(pending) :
          OneInputFails(i) =>
              /\ Len(pending') = Len(pending)
              /\ pending'[i].kind = "generate"
              /\ pending'[i].phase = "requested"
              /\ Replaced(pending'[i].inputImages, pending[i].inputImages)
              /\ error' = error
              /\ isGenerating']_vars

\* a call with two selected images has ended with the failure of a load
C17_Witness ==
    /\ Len(selectedElementIds) = 2
    /\ error = Some("Failed to generate image: Failed to load image")
    /\ InFlight = {}
    /\ ~isGenerating


\* the i-th pending call is a request that the service answers with an image
ImageArrives(i) == Requested(i) /\ Step(ImageResponse(St, i))

\* prompt p is empty or consists of white space only
Blank(p) == \A k \in 1..Len(p) : p[k] = " "

\* C18: when the service responds with an image, one new image element
\* (width 512, height 512, at (100,100), fresh id) is appended as the topmost
\* element of the document and one history entry is committed; a call with
\* an empty or whitespace-only prompt sends no request and changes nothing.
C18_ImageAppended ==
    [][/\ \A i \in 1..Len(pending) :
            ImageArrives(i) =>
                /\ elements' = Append(elements, NewImage(nextId, N(512), N(512)))
                /\ nextId \notin UsedIds
                /\ history' = Append(SubSeq(history, 1, historyIndex + 1), elements')
                /\ historyIndex' = Len(history') - 1
       /\ \A p \in Prompts :
            (Blank(p) /\ PromptBarSubmits /\ Step(handleGenerateArt(St, p))) =>
                UNCHANGED <<docVars, selVars, uiVars, refVars, genVars,
                            pending, nextId>>]_vars

\* an image of the service is the topmost element of the document and of the
\* history's last entry
C18_Witness ==
    /\ Len(elements) = 3
    /\ elements[3].type = "image"
    /\ elements[3].width = N(512)
    /\ historyIndex = Len(history) - 1
    /\ history[historyIndex + 1] = elements


\* the i-th pending call is a request that the service answers without an
\* image, or that fails
NoImageArrives(i) ==
    /\ Requested(i)
    /\ \/ \E text \in TextResponses : Step(NoImageResponse(St, i, text))
       \/ Step(RequestRejected(St, i))

\* C19: when the service responds without an image, or the request fails,
\* the document, history and historyIndex are unchanged, a non-null error
\* message is set and the busy flag is cleared; and an error message that
\* is set is eventually cleared (null again) without user action.
C19_FailureReported ==
    /\ [][\A i \in 1..Len(pending) :
             NoImageArrives(i) =>
                 /\ UNCHANGED <<elements, history, historyIndex>>
                 /\ error' # Null
                 /\ ~isGenerating']_vars
    /\ (error # Null) ~> (error = Null)

\* a response without image has set its text as the error message, cleared
\* the busy flag and left the document of two images alone; the timer that
\* clears the message is outstanding
C19_Witness ==
    /\ error = Some("no image for this prompt")
    /\ errorTimers > 0
    /\ InFlight = {}
    /\ ~isGenerating
    /\ Len(elements) = 2
    /\ elements = history[historyIndex + 1]

\* C20: at most one generation request is in flight at any time: while a
\* call started by handleGenerate has not finished (isGenerating is true), no
\* other call is started.
C20_OneInFlight ==
    /\ Cardinality(InFlight) <= 1
    /\ InFlight # {} => isGenerating

\* a request is in flight after an earlier one was answered with an image
C20_Witness ==
    /\ Cardinality(InFlight) = 1
    /\ isGenerating
    /\ Len(elements) = 3
    /\ \E i \in InFlight : pending[i].phase = "requested"


(***************************************************************************)
(* C21: several image files ingested by one drop.                          *)
(***************************************************************************)
\* the files of a drop: their type is an image type or not, and the natural
\* size of the image they hold
DropFiles ==
    {[image |-> TRUE, width |-> N(20), height |-> N(10)],
     [image |-> TRUE, width |-> N(10), height |-> N(20)],
     [image |-> FALSE, width |-> N(0), height |-> N(0)]}

\* the lists of files of a drop
DropLists == UNION {[1..k -> DropFiles] : k \in 1..3}

\* handleDrop: files.forEach(file => file.type.startsWith('image/') &&
\* handleAddImageElement(file)), every call in the same render
RECURSIVE handleDrop(_, _)
handleDrop(s, files) ==
    IF files = <<>> THEN s
    ELSE LET file == Head(files)
         IN  IF file.image
             THEN handleDrop(handleAddImageElement(s,
                                 [width |-> file.width, height |-> file.height]),
                             Tail(files))
             ELSE handleDrop(s, Tail(files))

\* the image files among files
RECURSIVE ImagesIn(_)
ImagesIn(files) ==
    IF files = <<>> THEN 0
    ELSE (IF Head(files).image THEN 1 ELSE 0) + ImagesIn(Tail(files))

InitDrop ==
    /\ Is(InitialState) \/ Is(OneShapeSelected) \/ Is(LayerDocument)
    /\ events = 0
    /\ probe = [op |-> "drop", dropped |-> FALSE, before |-> elements, k |-> 0]

FilesDropped ==
    \E files \in DropLists :
        /\ ~probe.dropped
        /\ Step(handleDrop(St, files))
        /\ probe' = [probe EXCEPT !.dropped = TRUE, !.k = ImagesIn(files)]

NextDrop ==
    \/ FilesDropped
    \/ AddImageLoaded /\ UNCHANGED probe

SpecDrop == InitDrop /\ [][NextDrop]_vars

\* the image elements of els that are at (100,100) and not in before
NewImagesIn(els, before) ==
    {i \in 1..Len(els) :
        /\ els[i].type = "image"
        /\ els[i].x = N(100) /\ els[i].y = N(100)
        /\ ~\E j \in 1..Len(before) : before[j].id = els[i].id}

\* C21: after a drop of k image files, once all loads have completed (in any
\* order), the document contains k new image elements, one per file, each at
\* (100,100), in addition to all elements present before.
C21_AllDroppedImages ==
    (probe.op = "drop" /\ probe.dropped /\ pending = <<>>) =>
        /\ Cardinality(NewImagesIn(elements, probe.before)) = probe.k
        /\ \A j \in 1..Len(probe.before) : InSeq(elements, probe.before[j])

\* two image files were dropped and both have loaded
C21_Witness ==
    /\ probe.op = "drop" /\ probe.dropped /\ probe.k = 2
    /\ pending = <<>>
    /\ nextId = Len(probe.before) + 3


(***************************************************************************)
(* Key presses.  Three keydown listeners are registered on window: the     *)
(* App's (undo, redo, delete), the Toolbar's (undo, redo, tool keys) and   *)
(* the App's canvas-size listener.  Each runs for every keydown, with the  *)
(* state of the render that registered it.                                 *)
(***************************************************************************)
\* the range of the canvas-size slider: the minSize and maxSize props
minCanvasSize == 50

maxCanvasSize == 200

\* String.prototype.toUpperCase on the keys that are pressed
toUpperCase(key) ==
    CASE key = "z" -> "Z"
      [] key = "y" -> "Y"
      [] key = "v" -> "V"
      [] key = "r" -> "R"
      [] key = "e" -> "E"
      [] OTHER -> key

\* the writes of two handlers that ran one after the other in state s and
\* gave a and b: a setter of the second overrides the same setter of the
\* first
Both(s, a, b) ==
    [f \in DOMAIN s |-> IF b[f] # s[f] THEN b[f] ELSE a[f]]

\* the App's handleKeyDown (undo, redo, delete)
AppKeyDown(s, e) ==
    LET isTyping == e.tagName = "INPUT" \/ e.tagName = "TEXTAREA"
        u == handleUndo(s.history, s.historyIndex, s.elements)
        r == handleRedo(s.history, s.historyIndex, s.elements)
    IN  IF e.ctrlKey /\ e.key = "z"
        THEN [s EXCEPT !.historyIndex = u.historyIndex, !.elements = u.elements]
        ELSE IF e.ctrlKey /\ (e.key = "y" \/ (e.shiftKey /\ e.key = "z"))
        THEN [s EXCEPT !.historyIndex = r.historyIndex, !.elements = r.elements]
        ELSE IF /\ ~isTyping
                /\ e.key = "Delete" \/ e.key = "Backspace"
                /\ s.selectedElement # Null \/ Len(s.selectedElementIds) > 0
        THEN handleDelete(s)
        ELSE s

\* the Toolbar's handleKeyDown
ToolbarKeyDown(s, e) ==
    LET key == toUpperCase(e.key)
        canUndo == s.historyIndex > 0
        canRedo == s.historyIndex < Len(s.history) - 1
        isCropping == s.croppingState # Null
        u == handleUndo(s.history, s.historyIndex, s.elements)
        r == handleRedo(s.history, s.historyIndex, s.elements)
    IN  IF e.tagName = "INPUT" \/ e.tagName = "TEXTAREA" THEN s
        ELSE IF e.ctrlKey
        THEN CASE key = "Z" /\ ~e.shiftKey /\ canUndo ->
                     [s EXCEPT !.historyIndex = u.historyIndex,
                               !.elements = u.elements]
               [] key = "Y" /\ canRedo ->
                     [s EXCEPT !.historyIndex = r.historyIndex,
                               !.elements = r.elements]
               [] OTHER -> s
        ELSE IF ~isCropping
        THEN CASE key = "V" -> [s EXCEPT !.activeTool = "select"]
               [] key = "R" -> [s EXCEPT !.activeTool = "rectangle"]
               [] key = "E" -> [s EXCEPT !.activeTool = "erase"]
               [] OTHER -> s
        ELSE s

\* a canvas-size listener without Math.min
CanvasSizeKeyDown_NoMin(s, e) ==
    IF e.ctrlKey
    THEN IF e.key = "=" \/ e.key = "+"
         THEN [s EXCEPT !.canvasSize = Add(@, N(10))]
         ELSE IF e.key = "-"
         THEN [s EXCEPT !.canvasSize = Max(N(50), Sub(@, N(10)))]
         ELSE s
    ELSE s

\* the App's canvas-size handleKeyDown
CanvasSizeKeyDown(s, e) ==
    IF e.ctrlKey
    THEN IF e.key = "=" \/ e.key = "+"
         THEN [s EXCEPT !.canvasSize = Min(N(200), Add(@, N(10)))]
         ELSE IF e.key = "-"
         THEN [s EXCEPT !.canvasSize = Max(N(50), Sub(@, N(10)))]
         ELSE s
    ELSE s

\* listeners that each see the state the one before has left
handleKeyDown_Sequential(s, e) ==
    LET t == AppKeyDown(ToolbarKeyDown(s, e), e)
    IN  [t EXCEPT !.canvasSize = CanvasSizeKeyDown(t, e).canvasSize]

\* the state after the three listeners have run for keydown e
handleKeyDown(s, e) ==
    LET t == Both(s, ToolbarKeyDown(s, e), AppKeyDown(s, e))
    IN  [t EXCEPT !.canvasSize = CanvasSizeKeyDown(t, e).canvasSize]

\* handleSliderChange / handleCanvasSizeChange: the value of the range input
handleCanvasSizeChange(s, newSize) == [s EXCEPT !.canvasSize = N(newSize)]

Keys == {"z", "Z", "y", "Delete", "Backspace", "v", "r", "=", "+", "-"}

TagNames == {"BODY", "INPUT", "TEXTAREA"}

KeyEvents ==
    [key : Keys, ctrlKey : BOOLEAN, shiftKey : BOOLEAN, tagName : TagNames]

\* the values the range input is dragged to
SliderValues == {minCanvasSize, minCanvasSize + 5, maxCanvasSize - 5, maxCanvasSize}

KeyPressed(e) == Step(handleKeyDown(St, e))

KeyDown == \E e \in KeyEvents : KeyPressed(e)

SliderChange == \E v \in SliderValues : Step(handleCanvasSizeChange(St, v))

InitKeys == Is(OneShapeSelected) /\ events = 0 /\ probe = NoProbe

NextKeys ==
    \/ KeyDown /\ UNCHANGED probe
    \/ SliderChange /\ UNCHANGED probe

SpecKeys == InitKeys /\ [][NextKeys]_vars

\* keydown e is one of the undo, redo and delete shortcuts
IsShortcut(e) ==
    \/ e.ctrlKey /\ e.key \in {"z", "Z", "y"}
    \/ e.key \in {"Delete", "Backspace"}

\* C22: a Ctrl/Cmd+Z, Ctrl/Cmd+Y or Delete/Backspace keydown whose target is
\* an INPUT or a TEXTAREA leaves the document, history, historyIndex and
\* the selection unchanged.
C22_ShortcutsNotWhileTyping ==
    [][\A e \in KeyEvents :
          (IsShortcut(e) /\ e.tagName \in {"INPUT", "TEXTAREA"} /\ KeyPressed(e))
              => UNCHANGED <<docVars, selVars>>]_vars

\* the shape was undone by a keydown (the budget has one event used)
C22_Witness ==
    /\ events = 1
    /\ historyIndex = Len(history) - 2
    /\ elements = history[historyIndex + 1]

JsonNull == [null |-> TRUE]

\* JSON.stringify of a number
JsonNumber(q) == IF IsFinite(q) THEN q ELSE JsonNull

\* JSON.stringify of an element
JsonElement(el) ==
    [el EXCEPT !.x = JsonNumber(@), !.y = JsonNumber(@),
               !.width = JsonNumber(@), !.height = JsonNumber(@),
               !.points = [k \in 1..Len(@) |->
                              Pt(JsonNumber(@[k].x), JsonNumber(@[k].y))]]

\* JSON.stringify(elements, null, 2)
stringify(els) ==
    [text |-> "json", value |-> [k \in 1..Len(els) |-> JsonElement(els[k])]]

\* a text that is no JSON, and the JSON text [7]
NoJson == [text |-> "other", value |-> <<>>]

ArrayOfNumber == [text |-> "json", value |-> <<[json |-> "number"]>>]

\* JSON.parse(text): it throws, or gives the value the text denotes
parse(file) ==
    IF file.text = "json" THEN [threw |-> FALSE, value |-> file.value]
    ELSE [threw |-> TRUE, value |-> <<>>]

\* handleSave: the file that is written
handleSave(s) == stringify(s.elements)

\* handleLoad(event) for a chosen file: a FileReader is started whose onload
\* closes over the commitAction of this render
handleLoad(s, file) ==
    [s EXCEPT !.pending = Append(s.pending,
        [kind |-> "load", file |-> file,
         history |-> s.history, historyIndex |-> s.historyIndex])]

\* reader.onload of handleLoad
LoadOnload(s, i) ==
    LET cb == s.pending[i]
        loaded == parse(cb.file)
        c == commitAction(cb.history, cb.historyIndex, loaded.value)
    IN  IF loaded.threw THEN Settled(s, i)
        ELSE [Settled(s, i) EXCEPT !.elements = loaded.value,
                                   !.history = c.history,
                                   !.historyIndex = c.historyIndex]

\* Save: probe.saved holds the file written and the document it was written
\* from
Save ==
    /\ probe.saved = Null
    /\ Step(St)
    /\ probe' = [probe EXCEPT !.saved = Some([file |-> handleSave(St),
                                              elements |-> elements])]

\* the files that can be chosen: a text that is no JSON, a JSON array of a
\* number, and the file written by Save
LoadFiles ==
    {NoJson, ArrayOfNumber}
    \cup (IF probe.saved = Null THEN {} ELSE {Val(probe.saved).file})

Load == \E file \in LoadFiles : Step(handleLoad(St, file))

LoadRead(i) == pending[i].kind = "load" /\ Step(LoadOnload(St, i))

LoadLoaded == \E i \in 1..Len(pending) : LoadRead(i)

\* handleClear
handleClear(s) == Committed(s, <<>>)

Clear == Step(handleClear(St))

InitLoad ==
    /\ Is(OneShapeSelected) \/ Is(LayerDocument)
    /\ events = 0
    /\ probe = [op |-> "load", saved |-> Null]

NextLoad ==
    \/ Save
    \/ Load /\ UNCHANGED probe
    \/ LoadLoaded /\ UNCHANGED probe
    \/ Clear /\ UNCHANGED probe
    \/ Undo /\ UNCHANGED probe

SpecLoad == InitLoad /\ [][NextLoad]_vars

\* C24: Load of a file whose content is malformed (text that does not parse
\* as JSON, or JSON that is not an array of element records) leaves the
\* document, history and historyIndex unchanged; Load of a file written by
\* Save replaces the document with an equal element array and commits one
\* new history entry.
C24_Load ==
    [][(probe.op = "load") =>
        \A i \in 1..Len(pending) :
            LoadRead(i) =>
                IF pending[i].file \in {NoJson, ArrayOfNumber}
                THEN UNCHANGED docVars
                ELSE /\ elements' = Val(probe.saved).elements
                     /\ history' = Append(SubSeq(history, 1, historyIndex + 1),
                                          elements')
                     /\ historyIndex' = Len(history') - 1]_vars

\* the file written by Save was loaded into a document that was cleared in
\* between
C24_Witness ==
    /\ probe.op = "load"
    /\ probe.saved # Null
    /\ elements = Val(probe.saved).elements
    /\ elements # <<>>
    /\ pending = <<>>
    /\ Len(history) >= 2
    /\ history[Len(history) - 1] = <<>>
    /\ historyIndex = Len(history) - 1


(***************************************************************************)
(* C25: the x and y of path elements.                                      *)
(***************************************************************************)
\* the state after a stroke from (100,100) to (110,110) is drawn with the
\* draw tool and then selected by a click with the select tool
PathSelected ==
    After(InitialState,
          <<ToolKey("draw"), Down(100, 100), Move(110, 110), Up,
            ToolKey("select"), Down(100, 100), Up>>)

InitPath == Is(PathSelected) /\ events = 0 /\ probe = NoProbe

NextPath ==
    \/ action = "none" /\ MouseDownAt(ClipPts) /\ UNCHANGED probe
    \/ MouseMoveAt(ClipPts) /\ UNCHANGED probe
    \/ MouseUp /\ UNCHANGED probe
    \/ Copy /\ UNCHANGED probe
    \/ Paste /\ UNCHANGED probe
    \/ LayerAction /\ UNCHANGED probe
    \/ Undo /\ UNCHANGED probe
    \/ Redo /\ UNCHANGED probe

SpecPath == InitPath /\ [][NextPath]_vars

\* every path element of els has x = 0 and y = 0
PathsAtOrigin(els) ==
    \A i \in 1..Len(els) :
        els[i].type = "path" => (els[i].x = N(0) /\ els[i].y = N(0))

\* C25: in every reachable state every path element of the document and of
\* every history snapshot has x = 0 and y = 0, after any sequence of draw,
\* move, copy, paste, layer, undo and redo operations.
C25_PathsAtOrigin ==
    /\ PathsAtOrigin(elements)
    /\ \A k \in 1..Len(history) : PathsAtOrigin(history[k])

\* a stroke was moved by a drag and is still at the origin
C25_Witness ==
    /\ Len(elements) = 1
    /\ elements[1].type = "path"
    /\ elements[1].points[1] = Pt(N(90), N(90))
    /\ elements[1].x = N(0) /\ elements[1].y = N(0)
    /\ action = "none"


\* C26: in every reachable state, when selectedElementIds holds exactly one
\* id, the primary selection selectedElement is non-null and has that id
\* (after click selection, rubber-band selection, erase, delete and resize).
C26_PrimaryIsTheSelected ==
    Len(selectedElementIds) = 1 =>
        /\ selectedElement # Null
        /\ Val(selectedElement).id = selectedElementIds[1]

\* one element is selected by a click and is the primary selection
C26_Witness ==
    /\ Len(selectedElementIds) = 1
    /\ selectedElement # Null
    /\ Val(selectedElement).id = selectedElementIds[1]
    /\ action = "none"
    /\ events > 0


(***************************************************************************)
(* C27..C29: pointer events in every tool and mode.  The document holds a  *)
(* shape and, above it, a selected image; tools are switched by key and    *)
(* the crop buttons are pressed at any time, also while the pointer's      *)
(* button is held.                                                         *)
(***************************************************************************)
InitModes == Is(CropDocument) /\ events = 0 /\ probe = NoProbe

NextModes ==
    \/ action = "none" /\ MouseDown /\ UNCHANGED probe
    \/ MouseMove /\ UNCHANGED probe
    \/ MouseUp /\ UNCHANGED probe
    \/ SetActiveTool /\ UNCHANGED probe
    \/ StartCrop /\ UNCHANGED probe
    \/ CancelCrop /\ UNCHANGED probe

SpecModes == InitModes /\ [][NextModes]_vars

\* C27: whenever a pointer-move is handled with action = 'moving',
\* activeTool = 'select' and a non-null selectedElement, a drag-start
\* position snapshot exists for that element's id (the move branch does not
\* crash).
C27_SnapshotForMovedElement ==
    [][(MouseMove /\ action = "moving" /\ activeTool = "select"
                  /\ selectedElement # Null)
          => MapHas(dragStartElementPositions, Val(selectedElement).id)]_vars

\* a pointer-move has moved the selected image from its drag-start snapshot
C27_Witness ==
    /\ action = "moving" /\ activeTool = "select"
    /\ selectedElement # Null
    /\ MapHas(dragStartElementPositions, Val(selectedElement).id)
    /\ \E i \in 1..Len(elements) :
          /\ elements[i].id = Val(selectedElement).id
          /\ elements[i].x # Val(selectedElement).x

\* C28: after every pointer-up (or pointer-leave), in every tool and mode
\* including cropping and a tool switch by keyboard during the gesture,
\* action is 'none', the in-progress-element id is null, the drag-start
\* snapshots are empty, the resize and crop anchors are null and no
\* rubber-band selection box remains.
C28_PointerUpResets ==
    [][MouseUp =>
          /\ action' = "none"
          /\ currentDrawingElementId' = Null
          /\ dragStartElementPositions' = {}
          /\ resizeStartInfo' = Null
          /\ cropStartInfo' = Null
          /\ selectionBox' = Null]_vars

\* a rubber band has ended with a pointer-up: the image in it is selected
\* and nothing of the gesture remains
C28_Witness ==
    /\ Len(selectedElementIds) = 1
    /\ selectedElement = Null
    /\ action = "none"
    /\ selectionBox = Null
    /\ dragStartElementPositions = {}
    /\ events >= 3

\* C29: while cropping mode is active, pointer-down, pointer-move and
\* pointer-up never change the document, the history, historyIndex, the
\* selection or action, whatever the active tool is; they change only the
\* crop box's position (its width and height stay) and the crop-drag anchor.
C29_CroppingOverrides ==
    [][(croppingState # Null /\ (MouseDown \/ MouseMove \/ MouseUp)) =>
          /\ UNCHANGED <<docVars, selVars, action, activeTool, selectionBox,
                         panOffset, canvasSize, currentDrawingElementId,
                         resizeStartInfo, dragStartElementPositions, genVars,
                         pending, nextId>>
          /\ croppingState' # Null
          /\ Val(croppingState').elementId = Val(croppingState).elementId
          /\ Val(croppingState').originalElement = Val(croppingState).originalElement
          /\ Val(croppingState').cropBox.width = Val(croppingState).cropBox.width
          /\ Val(croppingState').cropBox.height = Val(croppingState).cropBox.height]_vars

\* the crop box has been dragged away from the image
C29_Witness ==
    /\ croppingState # Null
    /\ cropStartInfo # Null
    /\ Val(croppingState).cropBox.x # Val(croppingState).originalElement.x
    /\ action = "none"


\* C30: no history entry is committed while a gesture is in progress:
\* between the pointer-down that starts a gesture and its pointer-up, under
\* any interleaving with the async image-load callbacks, history does not
\* change; commits occur only at pointer-up or in commands issued while
\* action is 'none'.
C30_NoCommitMidGesture ==
    [][(action # "none" /\ ~MouseUp) => history' = history]_vars

\* a stroke is being drawn while an image file is loading, and nothing has
\* been committed
C30_Witness ==
    /\ action = "drawing"
    /\ currentDrawingElementId # Null
    /\ Len(pending) > 0
    /\ history = <<<<>>>>

(***************************************************************************)
(* C31: callbacks that run after further edits.  The document of two       *)
(* images; image files, image URLs and prompts are submitted, the document *)
(* is edited by Delete and Undo, and the callbacks run in any order.       *)
(***************************************************************************)
\* handleUrlUpload(url) called by the URL dialog with an accepted url
UrlUpload == \E dim \in ImageDims : Step(handleUrlUpload(St, dim))

UrlImageLoaded ==
    \E i \in 1..Len(pending) :
        pending[i].kind = "urlImage" /\ Step(UrlImageOnload(St, i))

\* img.onerror of handleUrlUpload: a console message only
UrlImageFailed ==
    \E i \in 1..Len(pending) :
        pending[i].kind = "urlImage" /\ Step(Settled(St, i))

InitAsync ==
    /\ \E evs \in {<<>>, <<Down(100, 100), Up>>} : Is(After(GenDocument, evs))
    /\ events = 0
    /\ probe = NoProbe

NextAsync ==
    \/ AddImage /\ UNCHANGED probe
    \/ AddImageLoaded /\ UNCHANGED probe
    \/ UrlUpload /\ UNCHANGED probe
    \/ UrlImageLoaded /\ UNCHANGED probe
    \/ UrlImageFailed /\ UNCHANGED probe
    \/ Generate /\ UNCHANGED probe
    \/ ConversionLoaded /\ UNCHANGED probe
    \/ RespondImage /\ UNCHANGED probe
    \/ Delete /\ UNCHANGED probe
    \/ Undo /\ UNCHANGED probe

SpecAsync == InitAsync /\ [][NextAsync]_vars

\* the step applies the i-th pending callback: an image file or an image
\* URL has loaded, or a generation has answered with an image
CallbackApplied(i) ==
    \/ pending[i].kind = "addImage" /\ Step(AddImageOnload(St, i))
    \/ pending[i].kind = "urlImage" /\ Step(UrlImageOnload(St, i))
    \/ Requested(i) /\ Step(ImageResponse(St, i))

\* the positions of the history entries committed since the request of
\* callback cb was issued
CommittedSince(cb) ==
    {k \in 1..Len(history) :
        k > Len(cb.history) \/ history[k] # cb.history[k]}

\* C31: a step that applies an async callback (image file load, URL image
\* load, generation response with an image) keeps every element of the live
\* document in the document and every history entry committed since the
\* request in the history
C31_CallbackKeepsNewer ==
    [][\A i \in 1..Len(pending) :
          CallbackApplied(i) =>
              /\ \A k \in 1..Len(elements) : InSeq(elements', elements[k])
              /\ \A k \in CommittedSince(pending[i]) :
                     InSeq(history', history[k])]_vars

\* a callback has been applied with nothing edited since its request: the
\* two images are in the document under the new one, the history has one
\* more entry
C31_Witness ==
    /\ events = 2
    /\ Len(pending) = 0
    /\ Len(elements) = 3
    /\ SubSeq(elements, 1, 2) = GenDocument.elements
    /\ history = Append(GenDocument.history, elements)
    /\ historyIndex = Len(history) - 1

(***************************************************************************)
(* C32: a move gesture with the select tool over the document of two       *)
(* shapes and a stroke.  probe holds the element under the pointer-down as *)
(* it was at the pointer-down and the pointer-down's canvas point, from    *)
(* the pointer-down that starts the move to the pointer-up.                *)
(***************************************************************************)
MovePts == {Pt(N(12), N(12)), Pt(N(100), N(100)), Pt(N(105), N(105)),
            Pt(N(130), N(140))}

MoveDown ==
    /\ action = "none"
    /\ \E e \in DownEvents(MovePts) :
          LET t == handleMouseDown(St, e)
          IN  /\ Step(t)
              /\ probe' = IF t.action = "moving"
                          THEN [op |-> "move",
                                el |-> Val(t.selectedElement),
                                down |-> ToCanvas(St, e.client)]
                          ELSE NoProbe

InitMove == Is(LayerDocument) /\ events = 0 /\ probe = NoProbe

NextMove ==
    \/ MoveDown
    \/ MouseMoveAt(MovePts) /\ UNCHANGED probe
    \/ MouseUp /\ probe' = NoProbe
    \/ Undo /\ UNCHANGED probe
    \/ Redo /\ UNCHANGED probe

SpecMove == InitMove /\ [][NextMove]_vars

\* element el with its position (for a path, every point) set to that of
\* the element `from` plus (dx, dy)
Translated(el, from, dx, dy) ==
    IF el.type = "path"
    THEN [el EXCEPT !.points =
             [i \in 1..Len(from.points) |->
                 Pt(Add(from.points[i].x, dx), Add(from.points[i].y, dy))]]
    ELSE [el EXCEPT !.x = Add(from.x, dx), !.y = Add(from.y, dy)]

\* C32: during a select-tool move gesture, a pointer-move at c leaves the
\* dragged element at its drag-start position plus (c - pointer-down point),
\* every point of a dragged path at its drag-start point plus that delta,
\* whatever the pointer-moves before it were; every other element, the
\* order of the elements and the other fields of the dragged element are
\* unchanged
C32_MoveFollowsPointer ==
    [][\A c \in MovePts :
          (/\ probe.op = "move"
           /\ Step(handleMouseMove(St, [client |-> c]))) =>
              LET p == ToCanvas(St, c)
                  dx == Sub(p.x, probe.down.x)
                  dy == Sub(p.y, probe.down.y)
              IN  /\ Len(elements') = Len(elements)
                  /\ \A k \in 1..Len(elements) :
                        elements'[k] =
                            IF elements[k].id = probe.el.id
                            THEN Translated(elements[k], probe.el, dx, dy)
                            ELSE elements[k]]_vars

\* the stroke was dragged from (100,100) over (105,105) to (130,140): its
\* points are the drawn ones plus (30,40)
C32_Witness ==
    /\ probe.op = "move" /\ probe.el.type = "path"
    /\ probe.down = Pt(N(100), N(100))
    /\ action = "moving"
    /\ events = 3
    /\ elements[3].points = <<Pt(N(180), N(190)), Pt(N(130), N(140))>>
    /\ elements[1] = LayerDocument.elements[1]
    /\ elements[2] = LayerDocument.elements[2]

(***************************************************************************)
(* C33: resize gestures on a selected shape: the shape of width 10 and     *)
(* height 20, and a shape of width 20 and height 0 drawn by a horizontal   *)
(* drag of the rectangle tool and selected by a click on it.               *)
(***************************************************************************)
FlatShapeSelected ==
    After(InitialState,
          <<ToolKey("rectangle"), Down(100, 100), Move(120, 100), Up,
            ToolKey("select"), Down(110, 100), Up>>)

ResizePts == ClientPts \cup {Pt(N(120), N(100)), Pt(N(100), N(105))}

InitResize ==
    /\ Is(OneShapeSelected) \/ Is(FlatShapeSelected)
    /\ events = 0
    /\ probe = NoProbe

NextResize ==
    \/ action = "none" /\ MouseDownAt(ResizePts) /\ UNCHANGED probe
    \/ MouseMoveAt(ResizePts) /\ UNCHANGED probe
    \/ MouseUp /\ UNCHANGED probe

SpecResize == InitResize /\ [][NextResize]_vars

\* C33: a pointer-move of a resize gesture keeps the edge opposite the
\* dragged handle where the recorded original element has it: x + width for
\* a handle with 'l', y + height for a handle with 't', x (y) for a handle
\* without 'l' ('t'), also at the floor and with the aspect lock
C33_OppositeEdgeFixed ==
    [][(MouseMoveAt(ResizePts) /\ action = "resizing" /\ resizeStartInfo # Null) =>
          LET info == Val(resizeStartInfo)
              o == info.originalElement
          IN  \A i \in 1..Len(elements') :
                  elements'[i].id = o.id =>
                      LET el == elements'[i]
                      IN  /\ IF Includes(info.handle, "l")
                             THEN Add(el.x, el.width) = Add(o.x, o.width)
                             ELSE el.x = o.x
                          /\ IF Includes(info.handle, "t")
                             THEN Add(el.y, el.height) = Add(o.y, o.height)
                             ELSE el.y = o.y]_vars

\* the shape of width 10 and height 20 at (100,100) has been resized by its
\* top-left handle with shift held, down to the floor: its right and bottom
\* edges are where they were
C33_Witness ==
    /\ action = "resizing"
    /\ resizeStartInfo # Null
    /\ Val(resizeStartInfo).handle = "tl"
    /\ Val(resizeStartInfo).shiftKey
    /\ Len(elements) = 1
    /\ elements[1].height = N(10)
    /\ Add(elements[1].x, elements[1].width) = N(110)
    /\ Add(elements[1].y, elements[1].height) = N(120)

(***************************************************************************)
(* C34: the start of a resize gesture on the selected shape of width 10    *)
(* and height 20, after it was moved or resized or undo / redo was used.   *)
(***************************************************************************)
StartPts == {Pt(N(100), N(100)), Pt(N(105), N(110)), Pt(N(110), N(110)),
             Pt(N(115), N(120))}

\* a pointer-down whose target is the handle drawn at the point when there
\* is one
HandleFirstDown ==
    \E e \in DownEvents(StartPts) :
        /\ e.handle = "none" =>
               \A h \in Handles : ~HandleUnder(ToCanvas(St, e.client), h)
        /\ Step(handleMouseDown(St, e))

InitStart == Is(OneShapeSelected) /\ events = 0 /\ probe = NoProbe

NextStart ==
    \/ action = "none" /\ HandleFirstDown /\ UNCHANGED probe
    \/ MouseMoveAt(StartPts) /\ UNCHANGED probe
    \/ MouseUp /\ UNCHANGED probe
    \/ Undo /\ UNCHANGED probe
    \/ Redo /\ UNCHANGED probe

SpecStart == InitStart /\ [][NextStart]_vars

SameGeometry(a, b) ==
    /\ a.x = b.x /\ a.y = b.y
    /\ a.width = b.width /\ a.height = b.height

\* C34: when a pointer-down starts a resize gesture, the original element
\* it records has the x, y, width and height the element has in the live
\* document
C34_ResizeStartsFromLive ==
    [][(action = "none" /\ action' = "resizing" /\ resizeStartInfo' # Null) =>
          \A i \in 1..Len(elements) :
              elements[i].id = Val(resizeStartInfo').originalElement.id =>
                  SameGeometry(Val(resizeStartInfo').originalElement,
                               elements[i])]_vars

\* a second resize gesture has started on the shape after a first one
\* changed it: the recorded original is the resized shape
C34_Witness ==
    /\ action = "resizing"
    /\ resizeStartInfo # Null
    /\ events = 4
    /\ Len(elements) = 1
    /\ SameGeometry(Val(resizeStartInfo).originalElement, elements[1])
    /\ ~SameGeometry(elements[1], OneShapeSelected.elements[1])
    /\ elements[1].id = OneShapeSelected.elements[1].id

(***************************************************************************)
(* C35: the commits of an erase gesture, on the three overlapping paths.   *)
(***************************************************************************)
\* an erase drag is in progress (and no crop drag, whose pointer events go
\* to the crop box)
EraseDrag ==
    /\ action = "drawing" /\ activeTool = "erase"
    /\ croppingState = Null \/ cropStartInfo = Null

\* the element a pointer event at client point c hits in the live document
HitAt(c) ==
    LET p == ToCanvas(St, c) IN getElementAtPosition(p.x, p.y, elements)

\* the step commits the document it leaves, as one new entry after the
\* cursor
CommitsResult ==
    LET r == commitAction(history, historyIndex, elements')
    IN  history' = r.history /\ historyIndex' = r.historyIndex

\* C35 as stated: a pointer-move of an erase drag that hits an element
\* removes it from the live document and commits a history entry
C35_AsStated ==
    [][\A c \in ClientPts :
          (/\ EraseDrag
           /\ HitAt(c) # Null
           /\ Step(handleMouseMove(St, [client |-> c]))) =>
              /\ elements' = WithoutId(elements, Val(HitAt(c)).id)
              /\ CommitsResult]_vars

\* C35, amended: a pointer-move of an erase drag that hits an element
\* removes it from the live document and commits nothing (one that hits
\* nothing changes nothing); the pointer-up that ends the drag commits the
\* document as one entry, and the pointer-down of the erase tool commits
\* when it hits an element and not otherwise
C35_EraseMoveCommitsNothing ==
    [][/\ \A c \in ClientPts :
            (EraseDrag /\ Step(handleMouseMove(St, [client |-> c]))) =>
                /\ elements' = IF HitAt(c) # Null
                               THEN WithoutId(elements, Val(HitAt(c)).id)
                               ELSE elements
                /\ history' = history
                /\ historyIndex' = historyIndex
       /\ (EraseDrag /\ MouseUp) =>
                /\ elements' = elements
                /\ CommitsResult
       /\ \A e \in DownEvents(ClientPts) :
            (/\ activeTool = "erase" /\ croppingState = Null
             /\ Step(handleMouseDown(St, e))) =>
                IF HitAt(e.client) # Null
                THEN /\ elements' = WithoutId(elements, Val(HitAt(e.client)).id)
                     /\ CommitsResult
                ELSE /\ elements' = elements
                     /\ history' = history
                     /\ historyIndex' = historyIndex]_vars

\* an erase drag whose pointer-down hit nothing has removed two of the
\* three paths by pointer-moves, and the history is as before the gesture
C35_Witness ==
    /\ probe.op = "erase"
    /\ EraseDrag
    /\ events = 3
    /\ Len(elements) = 1
    /\ Len(history) = probe.entries
    /\ Len(AtCursor) = 3

(***************************************************************************)
(* C36: the selection and the document.                                    *)
(***************************************************************************)
HasId(els, id) == \E i \in 1..Len(els) : els[i].id = id

\* C36: in every reachable state every id of selectedElementIds, and the
\* id of a non-null selectedElement, is the id of an element of the live
\* document
C36_SelectionInDocument ==
    /\ \A k \in 1..Len(selectedElementIds) :
          HasId(elements, selectedElementIds[k])
    /\ selectedElement # Null => HasId(elements, Val(selectedElement).id)

\* an undo has been made with the stroke selected, and the selected stroke
\* is in the document the undo restored
C36_Witness ==
    /\ events = 1
    /\ historyIndex = Len(history) - 2
    /\ elements = AtCursor
    /\ selectedElementIds = <<PathSelected.elements[1].id>>
    /\ selectedElement # Null
    /\ HasId(elements, selectedElementIds[1])

(***************************************************************************)
(* C37: gestures that leave the document as it was, on the selected shape  *)
(* of width 10 and height 20, with the select, pan and erase tools.  probe *)
(* holds the document and the history as they were at the pointer-down of  *)
(* the last gesture.                                                       *)
(***************************************************************************)
IdleTools == {"select", "pan", "erase"}

\* a point inside the shape, a point beside it and a point far from it
IdlePts == {Pt(N(105), N(110)), Pt(N(115), N(120)), Pt(N(200), N(200))}

GestureDown ==
    /\ action = "none"
    /\ MouseDownAt(IdlePts)
    /\ probe' = [op |-> "gesture", elements |-> elements,
                 history |-> history, historyIndex |-> historyIndex]

InitIdle ==
    /\ \E t \in IdleTools : Is(WithTool(OneShapeSelected, t))
    /\ events = 0
    /\ probe = NoProbe

NextIdle ==
    \/ GestureDown
    \/ MouseMoveAt(IdlePts) /\ UNCHANGED probe
    \/ MouseUp /\ UNCHANGED probe

SpecIdle == InitIdle /\ [][NextIdle]_vars

\* C37: the pointer-up of a gesture that leaves the document as it was at
\* its pointer-down (a select-tool click on an element, a pan drag, an
\* erase gesture that touches nothing) leaves the history and the cursor as
\* they were at the pointer-down
C37_IdleGestureNoEntry ==
    [][(/\ MouseUp
        /\ action # "none"
        /\ probe.op = "gesture"
        /\ elements' = probe.elements) =>
            /\ history' = probe.history
            /\ historyIndex' = probe.historyIndex]_vars

\* a rubber band drawn beside the shape has ended: the document and the
\* history are as they were at its pointer-down
C37_Witness ==
    /\ probe.op = "gesture"
    /\ action = "none"
    /\ activeTool = "select"
    /\ events = 3
    /\ selectionBox = Null
    /\ selectedElementIds = <<>>
    /\ elements = probe.elements
    /\ history = probe.history
    /\ historyIndex = probe.historyIndex

(***************************************************************************)
(* C38: one keydown, two listeners.                                        *)
(***************************************************************************)
\* C38: a Ctrl/Cmd+Z keydown outside the text inputs moves historyIndex
\* back by exactly one when it is above 0, and a Ctrl/Cmd+Y keydown moves it
\* forward by exactly one when an entry lies after it; the document becomes
\* the entry at the new index
C38_OneStepPerKey ==
    [][\A e \in KeyEvents :
          (e.ctrlKey /\ e.tagName = "BODY" /\ KeyPressed(e)) =>
              /\ (e.key \in {"z", "Z"} /\ ~e.shiftKey /\ historyIndex > 0) =>
                     /\ historyIndex' = historyIndex - 1
                     /\ elements' = history[historyIndex' + 1]
                     /\ history' = history
              /\ (e.key = "y" /\ historyIndex < Len(history) - 1) =>
                     /\ historyIndex' = historyIndex + 1
                     /\ elements' = history[historyIndex' + 1]
                     /\ history' = history]_vars

\* two undo keydowns have moved the cursor from the last of the three
\* entries to the first
C38_Witness ==
    /\ events = 2
    /\ Len(history) = 3
    /\ historyIndex = 0
    /\ elements = <<>>
    /\ history = OneShapeSelected.history

(***************************************************************************)
(* C39: the busy flag.  The program of SpecGenerate, where the continuation *)
(* of a call runs when the promise it awaits settles: the conversion of    *)
(* the inputs resolves or rejects, the service answers with an image or    *)
(* without one, or the request fails.  These steps are taken by the        *)
(* environment and are not counted with the user's events.                 *)
(***************************************************************************)
Settles ==
    /\ \E i \in 1..Len(pending) :
          \/ Converting(i) /\ Becomes(ConversionResolved(St, i))
          \/ Converting(i) /\ Becomes(ConversionRejected(St, i))
          \/ Requested(i) /\ Becomes(ImageResponse(St, i))
          \/ \E text \in TextResponses :
                Requested(i) /\ Becomes(NoImageResponse(St, i, text))
          \/ Requested(i) /\ Becomes(RequestRejected(St, i))
    /\ UNCHANGED <<events, probe>>

InitBusy == InitGenerate

NextBusy ==
    \/ Generate /\ UNCHANGED probe
    \/ Settles
    \/ ErrorTimeout
    \/ DismissError /\ UNCHANGED probe
    \/ Delete /\ UNCHANGED probe
    \/ Undo /\ UNCHANGED probe

SpecBusy == InitBusy /\ [][NextBusy]_vars

\* an awaited promise settles, and the continuation of the call then runs
FairSpecBusy == SpecBusy /\ WF_vars(Settles)

Urls ==
    {<<>>, <<" ">>, <<"image">>,
     <<"https://", "feishu.cn", "/a.png">>,
     <<"https://", "pinimg.com", "/a.png">>,
     <<"http://", "localhost", "/a.png">>,
     <<"https://", "example.com", "/a.png">>}

\* String.prototype.includes, for a part of a url
includes(url, part) == \E k \in 1..Len(url) : url[k] = part

\* whether new URL(url) returns: the text without the spaces around it
\* starts with a scheme
ValidUrl(url) ==
    LET t == trim(url) IN Len(t) > 0 /\ t[1] \in {"http://", "https://"}

\* a submit with no test of the host
handleSubmit_NoHostCheck(s) ==
    LET d == s.urlUpload IN
    IF trim(d.url) = <<>>
    THEN [s EXCEPT !.urlUpload.error = "enter a url"]
    ELSE IF ~ValidUrl(d.url)
    THEN [s EXCEPT !.urlUpload.error = "Invalid URL",
                   !.urlUpload.isLoading = FALSE]
    ELSE [s EXCEPT !.urlUpload.error = "",
                   !.urlUpload.isLoading = TRUE,
                   !.pending = Append(@,
                       [kind |-> "submitUrl", inst |-> d.inst, url |-> d.url,
                        elements |-> s.elements, history |-> s.history,
                        historyIndex |-> s.historyIndex])]

\* handleSubmit of the dialog, up to its await; the messages are named by
\* what they say
handleSubmit(s) ==
    LET d == s.urlUpload IN
    IF trim(d.url) = <<>>
    THEN [s EXCEPT !.urlUpload.error = "enter a url"]
    ELSE IF ~ValidUrl(d.url)
    THEN [s EXCEPT !.urlUpload.error = "Invalid URL",
                   !.urlUpload.isLoading = FALSE]
    ELSE IF \/ includes(d.url, "larkoffice.com") \/ includes(d.url, "feishu.cn")
            \/ includes(d.url, "internal-api")
    THEN [s EXCEPT !.urlUpload.error = "internal link",
                   !.urlUpload.isLoading = FALSE]
    ELSE IF includes(d.url, "pinimg.com") \/ includes(d.url, "pinterest.com")
    THEN [s EXCEPT !.urlUpload.error = "hotlink protection",
                   !.urlUpload.isLoading = FALSE]
    ELSE [s EXCEPT !.urlUpload.error = "",
                   !.urlUpload.isLoading = TRUE,
                   !.pending = Append(@,
                       [kind |-> "submitUrl", inst |-> d.inst, url |-> d.url,
                        elements |-> s.elements, history |-> s.history,
                        historyIndex |-> s.historyIndex])]

\* whether the component that made the i-th pending call is still mounted
Mounted(s, i) == s.urlUpload.show /\ s.urlUpload.inst = s.pending[i].inst

\* img.onload of handleSubmit: onUpload(url), onClose(), and the finally
SubmitResolved(s, i, dim) ==
    LET cb == s.pending[i]
        then == Settled(s, i)
        call == handleUrlUpload([then EXCEPT !.elements = cb.elements,
                                             !.history = cb.history,
                                             !.historyIndex = cb.historyIndex],
                                dim)
    IN  [then EXCEPT !.pending = call.pending,
                     !.urlUpload = NoUrlUpload(s.urlUpload.inst)]

\* img.onerror of handleSubmit: the catch and the finally, which set the
\* state of the component when it is still mounted
SubmitRejected(s, i) ==
    LET cb == s.pending[i]
        message == IF includes(cb.url, "localhost") \/ includes(cb.url, "127.0.0.1")
                   THEN "local link" ELSE "cannot load"
    IN  IF Mounted(s, i)
        THEN [Settled(s, i) EXCEPT !.urlUpload.error = message,
                                   !.urlUpload.isLoading = FALSE]
        ELSE Settled(s, i)

\* the Toolbar's "Upload from URL" button: handleUrlUpload('')
OpenUrlUpload ==
    /\ ~urlUpload.show
    /\ Step([St EXCEPT !.urlUpload =
                [NoUrlUpload(urlUpload.inst + 1) EXCEPT !.show = TRUE]])

\* the dialog's input, disabled while isLoading
SetUrl ==
    /\ urlUpload.show /\ ~urlUpload.isLoading
    /\ \E u \in Urls : Step([St EXCEPT !.urlUpload.url = u])

\* the form's submit event; the submit button is disabled while isLoading
SubmitUrl ==
    /\ urlUpload.show /\ ~urlUpload.isLoading
    /\ Step(handleSubmit(St))

SubmitLoaded(i) ==
    /\ pending[i].kind = "submitUrl"
    /\ \E dim \in ImageDims : Step(SubmitResolved(St, i, dim))

SubmitFailed(i) ==
    /\ pending[i].kind = "submitUrl"
    /\ Step(SubmitRejected(St, i))

\* onClose: the dialog's close button, its backdrop and the Escape key
CloseUrlUpload ==
    /\ urlUpload.show
    /\ Step([St EXCEPT !.urlUpload = NoUrlUpload(urlUpload.inst)])

InitUrl ==
    /\ \/ Is(InitialState)
       \/ Is([InitialState EXCEPT !.urlUpload =
                 [NoUrlUpload(1) EXCEPT !.show = TRUE]])
    /\ events = 0
    /\ probe = NoProbe

NextUrl ==
    \/ OpenUrlUpload /\ UNCHANGED probe
    \/ SetUrl /\ UNCHANGED probe
    \/ SubmitUrl /\ UNCHANGED probe
    \/ (\E i \in 1..Len(pending) : SubmitLoaded(i)) /\ UNCHANGED probe
    \/ (\E i \in 1..Len(pending) : SubmitFailed(i)) /\ UNCHANGED probe
    \/ CloseUrlUpload /\ UNCHANGED probe
    \/ UrlImageLoaded /\ UNCHANGED probe
    \/ UrlImageFailed /\ UNCHANGED probe

SpecUrl == InitUrl /\ [][NextUrl]_vars

\* the url is empty, is no valid URL or is on a blocked host
RejectedAtOnce(url) ==
    \/ trim(url) = <<>>
    \/ ~ValidUrl(url)
    \/ \E host \in {"larkoffice.com", "feishu.cn", "internal-api",
                    "pinimg.com", "pinterest.com"} : includes(url, host)

\* the dialog is open, shows an error and is not loading
ShowsError(d) == d.show /\ d.error # "" /\ ~d.isLoading

\* C40: a submit of a url that is empty, invalid or on a blocked host, and
\* the failure of the dialog's image to load, call no onUpload (no image
\* load of handleUrlUpload is started), leave the document and the history
\* as they are and leave the dialog open with a non-empty error and
\* isLoading false; the failure of the image of handleUrlUpload to load
\* leaves the document and the history as they are
C40_RejectedUrlStaysOut ==
    [][/\ (SubmitUrl /\ RejectedAtOnce(urlUpload.url)) =>
              /\ pending' = pending
              /\ UNCHANGED docVars
              /\ ShowsError(urlUpload')
       /\ \A i \in 1..Len(pending) :
              SubmitFailed(i) =>
                  /\ pending' = Settled(St, i).pending
                  /\ UNCHANGED docVars
                  /\ Mounted(St, i) => ShowsError(urlUpload')
       /\ UrlImageFailed =>
              /\ UNCHANGED docVars
              /\ \A k \in 1..Len(pending') : InSeq(pending, pending'[k])]_vars

\* the dialog shows the error of a url on a blocked host, and nothing is in
\* flight and nothing was added
C40_Witness ==
    /\ urlUpload.show
    /\ urlUpload.url = <<"https://", "feishu.cn", "/a.png">>
    /\ urlUpload.error = "internal link"
    /\ ~urlUpload.isLoading
    /\ pending = <<>>
    /\ elements = <<>>
    /\ history = <<<<>>>>

=============================================================================
